---- MODULE Spec2Model ----
(***************************************************************************)
(* A model of the schematic autoplacer of skidl                            *)
(* (src/src/skidl/schematics/place.py).                                    *)
(*                                                                         *)
(* The placer is modelled routine by routine.  Every routine has its own   *)
(* state variables, its own initial predicate and its own specification;   *)
(* a routine's actions leave the variables of the other routines alone.    *)
(*                                                                         *)
(*   SpecGroup    Placer.group_parts                                       *)
(*   SpecFanout   Placer.group_parts of a node with a high-fanout net      *)
(*   SpecEvolve   evolve_placement with every option off                   *)
(*   SpecPasses   evolve_placement with its options on or off              *)
(*   SpecOrient   adjust_orientations                                      *)
(*   SpecPush     push_and_pull                                            *)
(*   SpecPlace    Placer.place                                             *)
(*   SpecDet      two runs of Placer.place with the same seed              *)
(*   SpecSlip     slip_and_slide                                           *)
(*   SpecAlign    align_parts                                              *)
(*   SpecSnap     snap_to_grid                                             *)
(*   SpecAnchor   add_anchor_pull_pins                                     *)
(*   SpecBlocks   Placer.place_blocks                                      *)
(***************************************************************************)
EXTENDS Integers, Sequences, FiniteSets, TLC

(***************************************************************************)
(* Bounds of the model.                                                    *)
(***************************************************************************)
\* Number of parts a node may hold.
NumParts == 3
\* Longest list of internal nets a node may have.
MaxNets == 3

AllParts == 1..NumParts
\* Largest number of parts (or blocks) handed to evolve_placement.
NumElems == 3
\* Largest number of parts handed to adjust_orientations.
NumOrient == 3

VARIABLES
    \* ---- Placer.group_parts ----
    node_parts,       \* node.parts
    internal_nets,    \* the list of internal nets; a net is given by the set of
                      \* parts of the node that have a pin on it
    connected_parts,  \* the list of part groups
    floating_parts,   \* the parts that are on no internal net
    ret_nets,         \* the net list group_parts returns
    net_len,          \* len(net) of every net of the list of internal nets
    remove_high_fanout,  \* options.get("remove_high_fanout")
    gi,               \* the index i of the joining loop (1-based)
    gpc,              \* position in group_parts
    \* ---- evolve_placement ----
    ev_parts,         \* the list of parts (or blocks) being placed: 1..n
    ev_tx,            \* part.tx of each part
    ev_mv,            \* part.mv of each part
    ev_pc,            \* position in evolve_placement
    ev_opts,          \* the options of evolve_placement that are on
    \* ---- adjust_orientations ----
    or_parts,         \* the list of parts: 1..n
    or_locked,        \* part.orientation_locked
    or_nets,          \* the list of nets of the group; a net is the set of its pins
    or_tx,            \* part.tx
    or_tx0,           \* part.tx when adjust_orientations was called
    or_pass_tx,       \* part.tx when the present pass of the search began
    or_best,          \* part.prev_tx, part.delta_cost, part.delta_cost_tx
    or_moved,         \* moved_parts
    or_unmoved,       \* unmoved_parts
    or_iter,          \* iter_cnt
    or_ret,           \* the value returned
    or_pc,            \* position in adjust_orientations
    \* ---- push_and_pull ----
    pp_parts,         \* the list of parts: 1..n
    pp_use,           \* options.get("use_push_pull")
    pp_attr,          \* attractive_forces_sum is not zero
    pp_tx,            \* part.tx
    pp_force,         \* part.force
    pp_mv,            \* part.mv
    pp_mv_avg,        \* part.mv_avg, a decimal fraction: v / 10^s
    pp_mv_avg_coef,   \* mv_avg_coef, in tenths
    pp_alpha,         \* the index i of alpha = i * 1/N in alpha_schedule
    pp_pc,            \* position in push_and_pull
    \* ---- Placer.place ----
    pl_parts,         \* node.parts: 1..n
    pl_children,      \* node.children: "input", or "placed" once child.place returned
    pl_kind,          \* the kind of each pin
    pl_orient,        \* pin.orientation
    pl_push,          \* options.get("use_push_pull")
    pl_sim,           \* part.similarity(other_part) is not zero
    pl_filter,        \* remove_power or remove_high_fanout drops the internal net
    pl_log,           \* the calls place has made, in order
    pl_fail,          \* the placement step that gives up, or "none"
    pl_part_attr,     \* the transient fields each part has
    pl_pin_attr,      \* the transient fields each pin has
    pl_net_attr,      \* the transient fields the internal net has
    pl_tx,            \* part.tx
    pl_tx0,           \* part.tx when place was called
    pl_child_tx,      \* child.tx
    pl_groups,        \* connected_parts
    pl_floating,      \* floating_parts
    pl_gi,            \* index of the next group of connected_parts
    pl_ci,            \* index of the next child
    pl_err,           \* the exception place ended with
    pl_pc,            \* position in place
    \* ---- two runs of place on a node of floating parts ----
    det_parts,        \* node.parts: the set 1..n
    det_seed,         \* options.get("seed")
    det_rng,          \* the state of the random generator
    det_order,        \* list(floating_parts) in the current run
    det_tx,           \* part.tx in the current run
    det_result,       \* part.tx at the end of each finished run
    det_pc,           \* position in the current run
    \* ---- slip_and_slide ----
    sl_parts,         \* the list of parts: 1..n
    sl_tx,            \* part.tx
    sl_order,         \* the parts of mobile_parts still to be visited in this sweep
    sl_iter,          \* iterations
    sl_moved,         \* moved
    sl_turn,          \* the part of the last turn, its transform at the start and the candidates tried
    sl_pc,            \* position in slip_and_slide
    \* ---- align_parts ----
    al_parts,         \* the list of parts: 1..n
    al_npins,         \* len(part.pins)
    al_nets,          \* the list of nets; a net is the set of its pins
    al_tx,            \* part.tx
    al_order,         \* the parts of mobile_parts still to be visited
    al_last,          \* the part of the last turn, its align_moves, best_move and transform before
    al_pc,            \* position in align_parts
    \* ---- snap_to_grid ----
    sn_elem,          \* the element: a part with its pin points, or a block with its snap_pt
    sn_tx,            \* part_or_blk.tx
    sn_tx0,           \* part_or_blk.tx when snap_to_grid was called
    sn_pc,            \* position in snap_to_grid, or the exception raised
    \* ---- add_anchor_pull_pins ----
    ap_parts,         \* parts: the movable parts of the group
    ap_term,          \* the parts that are NetTerminals
    ap_bad,           \* the pins whose orientation is none of U, D, L, R
    ap_nets,          \* nets: the sequence of nets, each the set of its pins
    ap_anchor,        \* part.anchor_pins[net], a list of pins
    ap_pull,          \* part.pull_pins[net], a list of pins
    ap_i,             \* the number of nets already assigned
    ap_pc,            \* position in add_anchor_pull_pins
    \* ---- place_blocks ----
    bk_groups,        \* connected_parts: a list of sets of parts
    bk_floating,      \* floating_parts
    bk_children,      \* children: the child nodes
    bk_tx,            \* part.tx
    bk_tx0,           \* part.tx when place_blocks was called
    bk_child_tx,      \* child.tx
    bk_blocks,        \* part_blocks
    bk_attr,          \* blk_attr, in units of 1/AttrScale
    bk_pc             \* position in place_blocks

varsGroup == <<node_parts, internal_nets, connected_parts, floating_parts, ret_nets, net_len,
               remove_high_fanout, gi, gpc>>

varsEvolve == <<ev_parts, ev_tx, ev_mv, ev_pc, ev_opts>>

varsOrient == <<or_parts, or_locked, or_nets, or_tx, or_tx0, or_pass_tx, or_best, or_moved, or_unmoved,
                or_iter, or_ret, or_pc>>

varsPush == <<pp_parts, pp_use, pp_attr, pp_tx, pp_force, pp_mv, pp_mv_avg, pp_mv_avg_coef,
              pp_alpha, pp_pc>>

varsPlace == <<pl_parts, pl_children, pl_kind, pl_orient, pl_push, pl_sim, pl_filter, pl_fail, pl_part_attr,
               pl_pin_attr, pl_net_attr, pl_tx, pl_tx0, pl_child_tx, pl_groups, pl_floating,
               pl_gi, pl_ci, pl_err, pl_pc, pl_log>>

varsDet == <<det_parts, det_seed, det_rng, det_order, det_tx, det_result, det_pc>>

varsSlip == <<sl_parts, sl_tx, sl_order, sl_iter, sl_moved, sl_turn, sl_pc>>

varsAlign == <<al_parts, al_npins, al_nets, al_tx, al_order, al_last, al_pc>>

varsSnap == <<sn_elem, sn_tx, sn_tx0, sn_pc>>

varsAnchor == <<ap_parts, ap_term, ap_bad, ap_nets, ap_anchor, ap_pull, ap_i, ap_pc>>

varsBlocks == <<bk_groups, bk_floating, bk_children, bk_tx, bk_tx0, bk_child_tx, bk_blocks, bk_attr, bk_pc>>

vars == <<varsGroup, varsEvolve, varsOrient, varsPush, varsPlace, varsDet,
         varsSlip, varsAlign, varsSnap, varsAnchor, varsBlocks>>

\* What the actions of one routine leave alone: the variables of the others.
othersGroup == <<varsEvolve, varsOrient, varsPush, varsPlace, varsDet, varsSlip,
    varsAlign,
    varsSnap,
    varsAnchor,
    varsBlocks>>
othersEvolve == <<varsGroup, varsOrient, varsPush, varsPlace, varsDet, varsSlip,
    varsAlign,
    varsSnap,
    varsAnchor,
    varsBlocks>>
othersOrient == <<varsGroup, varsEvolve, varsPush, varsPlace, varsDet, varsSlip,
    varsAlign,
    varsSnap,
    varsAnchor,
    varsBlocks>>
othersPush == <<varsGroup, varsEvolve, varsOrient, varsPlace, varsDet, varsSlip,
    varsAlign,
    varsSnap,
    varsAnchor,
    varsBlocks>>
othersDet == <<varsGroup, varsEvolve, varsOrient, varsPush, varsPlace, varsSlip,
    varsAlign,
    varsSnap,
    varsAnchor,
    varsBlocks>>
othersPlace == <<varsGroup, varsEvolve, varsOrient, varsPush, varsDet, varsSlip,
    varsAlign,
    varsSnap,
    varsAnchor,
    varsBlocks>>
othersSlip == <<varsGroup, varsEvolve, varsOrient, varsPush, varsPlace, varsDet,
    varsAlign,
    varsSnap,
    varsAnchor,
    varsBlocks>>
othersAlign == <<varsGroup, varsEvolve, varsOrient, varsPush, varsPlace, varsDet, varsSlip,
    varsSnap,
    varsAnchor,
    varsBlocks>>
othersSnap == <<varsGroup, varsEvolve, varsOrient, varsPush, varsPlace, varsDet, varsSlip, varsAlign,
    varsAnchor,
    varsBlocks>>
othersAnchor == <<varsGroup, varsEvolve, varsOrient, varsPush, varsPlace, varsDet, varsSlip, varsAlign, varsSnap,
    varsBlocks>>
othersBlocks == <<varsGroup, varsEvolve, varsOrient, varsPush, varsPlace, varsDet, varsSlip, varsAlign, varsSnap, varsAnchor>>

(***************************************************************************)
(* Helpers.                                                                *)
(***************************************************************************)
Range(f) == {f[k] : k \in DOMAIN f}

Min(S) == CHOOSE m \in S : \A n \in S : m <= n

Max(S) == CHOOSE m \in S : \A n \in S : m >= n

\* Sequences over S of length at most n.
SeqsUpTo(S, n) == UNION {[1..k -> S] : k \in 0..n}

\* [group for group in seq if group]
RECURSIVE NonEmptyGroups(_)
NonEmptyGroups(seq) ==
    IF seq = <<>> THEN <<>>
    ELSE IF Head(seq) = {} THEN NonEmptyGroups(Tail(seq))
         ELSE <<Head(seq)>> \o NonEmptyGroups(Tail(seq))

\* The variables of evolve_placement while another routine is modelled.
IdleEvolve ==
    /\ ev_parts = <<>>
    /\ ev_tx = <<>>
    /\ ev_mv = <<>>
    /\ ev_pc = "idle"
    /\ ev_opts = {}

\* The variables of adjust_orientations while another routine is modelled.
IdleOrient ==
    /\ or_parts = <<>>
    /\ or_locked = <<>>
    /\ or_nets = <<>>
    /\ or_tx = <<>>
    /\ or_tx0 = <<>>
    /\ or_pass_tx = <<>>
    /\ or_best = <<>>
    /\ or_moved = <<>>
    /\ or_unmoved = <<>>
    /\ or_iter = 0
    /\ or_ret = "unset"
    /\ or_pc = "idle"

\* The variables of group_parts while another routine is modelled.
IdleGroup ==
    /\ node_parts = {}
    /\ internal_nets = <<>>
    /\ connected_parts = <<>>
    /\ floating_parts = {}
    /\ ret_nets = <<>>
    /\ net_len = <<>>
    /\ remove_high_fanout = FALSE
    /\ gi = 1
    /\ gpc = "idle"

\* The variables of push_and_pull while another routine is modelled.
IdlePush ==
    /\ pp_parts = <<>>
    /\ pp_use = FALSE
    /\ pp_attr = FALSE
    /\ pp_tx = <<>>
    /\ pp_force = <<>>
    /\ pp_mv = <<>>
    /\ pp_mv_avg = <<>>
    /\ pp_mv_avg_coef = 10
    /\ pp_alpha = 0
    /\ pp_pc = "idle"

\* Every routine but one is idle.
\* The variables of place while another routine is modelled.
IdlePlace ==
    /\ pl_parts = <<>>
    /\ pl_children = <<>>
    /\ pl_kind = <<>>
    /\ pl_orient = <<>>
    /\ pl_push = FALSE
    /\ pl_sim = FALSE
    /\ pl_filter = FALSE
    /\ pl_log = <<>>
    /\ pl_fail = "none"
    /\ pl_part_attr = <<>>
    /\ pl_pin_attr = <<>>
    /\ pl_net_attr = {}
    /\ pl_tx = <<>>
    /\ pl_tx0 = <<>>
    /\ pl_child_tx = <<>>
    /\ pl_groups = <<>>
    /\ pl_floating = {}
    /\ pl_gi = 1
    /\ pl_ci = 1
    /\ pl_err = "none"
    /\ pl_pc = "idle"

\* The variables of the two runs while another routine is modelled.
IdleDet ==
    /\ det_parts = {}
    /\ det_seed = 0
    /\ det_rng = 0
    /\ det_order = <<>>
    /\ det_tx = <<>>
    /\ det_result = <<>>
    /\ det_pc = "idle"

\* The variables of slip_and_slide while another routine is modelled.
IdleSlip ==
    /\ sl_parts = <<>>
    /\ sl_tx = <<>>
    /\ sl_order = <<>>
    /\ sl_iter = 0
    /\ sl_moved = FALSE
    /\ sl_turn = <<>>
    /\ sl_pc = "idle"

\* The variables of align_parts while another routine is modelled.
IdleAlign ==
    /\ al_parts = <<>>
    /\ al_npins = <<>>
    /\ al_nets = <<>>
    /\ al_tx = <<>>
    /\ al_order = <<>>
    /\ al_last = <<>>
    /\ al_pc = "idle"

\* The variables of snap_to_grid while another routine is modelled.
IdleSnap ==
    /\ sn_elem = <<>>
    /\ sn_tx = <<>>
    /\ sn_tx0 = <<>>
    /\ sn_pc = "idle"

\* The variables of add_anchor_pull_pins while another routine is modelled.
IdleAnchor ==
    /\ ap_parts = {}
    /\ ap_term = {}
    /\ ap_bad = {}
    /\ ap_nets = <<>>
    /\ ap_anchor = <<>>
    /\ ap_pull = <<>>
    /\ ap_i = 0
    /\ ap_pc = "idle"

\* The variables of place_blocks while another routine is modelled.
IdleBlocks ==
    /\ bk_groups = <<>>
    /\ bk_floating = {}
    /\ bk_children = <<>>
    /\ bk_tx = <<>>
    /\ bk_tx0 = <<>>
    /\ bk_child_tx = <<>>
    /\ bk_blocks = <<>>
    /\ bk_attr = <<>>
    /\ bk_pc = "idle"

IdleButGroup == IdleEvolve /\ IdleOrient /\ IdlePush /\ IdlePlace /\ IdleDet
    /\ IdleSlip
    /\ IdleAlign
    /\ IdleSnap
    /\ IdleAnchor
    /\ IdleBlocks
IdleButEvolve == IdleGroup /\ IdleOrient /\ IdlePush /\ IdlePlace /\ IdleDet
    /\ IdleSlip
    /\ IdleAlign
    /\ IdleSnap
    /\ IdleAnchor
    /\ IdleBlocks
IdleButOrient == IdleGroup /\ IdleEvolve /\ IdlePush /\ IdlePlace /\ IdleDet
    /\ IdleSlip
    /\ IdleAlign
    /\ IdleSnap
    /\ IdleAnchor
    /\ IdleBlocks
IdleButPush == IdleGroup /\ IdleEvolve /\ IdleOrient /\ IdlePlace /\ IdleDet
    /\ IdleSlip
    /\ IdleAlign
    /\ IdleSnap
    /\ IdleAnchor
    /\ IdleBlocks
IdleButPlace == IdleGroup /\ IdleEvolve /\ IdleOrient /\ IdlePush /\ IdleDet
    /\ IdleSlip
    /\ IdleAlign
    /\ IdleSnap
    /\ IdleAnchor
    /\ IdleBlocks
IdleButDet == IdleGroup /\ IdleEvolve /\ IdleOrient /\ IdlePush /\ IdlePlace
    /\ IdleSlip
    /\ IdleAlign
    /\ IdleSnap
    /\ IdleAnchor
    /\ IdleBlocks
IdleButSlip == IdleGroup /\ IdleEvolve /\ IdleOrient /\ IdlePush /\ IdlePlace /\ IdleDet
    /\ IdleAlign
    /\ IdleSnap
    /\ IdleAnchor
    /\ IdleBlocks
IdleButAlign == IdleGroup /\ IdleEvolve /\ IdleOrient /\ IdlePush /\ IdlePlace /\ IdleDet /\ IdleSlip
    /\ IdleSnap
    /\ IdleAnchor
    /\ IdleBlocks
IdleButSnap == IdleGroup /\ IdleEvolve /\ IdleOrient /\ IdlePush /\ IdlePlace /\ IdleDet /\ IdleSlip /\ IdleAlign
    /\ IdleAnchor
    /\ IdleBlocks
IdleButAnchor == IdleGroup /\ IdleEvolve /\ IdleOrient /\ IdlePush /\ IdlePlace /\ IdleDet /\ IdleSlip /\ IdleAlign /\ IdleSnap
    /\ IdleBlocks
IdleButBlocks == IdleGroup /\ IdleEvolve /\ IdleOrient /\ IdlePush /\ IdlePlace /\ IdleDet /\ IdleSlip /\ IdleAlign /\ IdleSnap /\ IdleAnchor

(***************************************************************************)
(* Placer.group_parts                                                      *)
(***************************************************************************)
InitGroup ==
    /\ IdleButGroup
    /\ node_parts \in SUBSET AllParts
    /\ internal_nets \in SeqsUpTo(SUBSET node_parts, MaxNets)
    /\ connected_parts = <<>>
    /\ floating_parts = {}
    /\ ret_nets = <<>>
    /\ net_len = [k \in DOMAIN internal_nets |-> Cardinality(internal_nets[k])]
    /\ remove_high_fanout = FALSE
    /\ gi = 1
    /\ gpc = "start"

\* "if not node.parts: return [], [], []"
GroupEmpty ==
    /\ gpc = "start"
    /\ node_parts = {}
    /\ gpc' = "done"
    /\ connected_parts' = <<>>
    /\ ret_nets' = <<>>
    /\ floating_parts' = {}
    /\ UNCHANGED <<node_parts, internal_nets, net_len, remove_high_fanout, gi>>
    /\ UNCHANGED othersGroup

\* The sum of fan[i] * fan[i] (sq) or of fan[i] over the list fan.
RECURSIVE SumLen(_, _)
SumLen(fan, sq) ==
    IF fan = <<>> THEN 0
    ELSE (IF sq THEN Head(fan) * Head(fan) ELSE Head(fan)) + SumLen(Tail(fan), sq)

\* "len(net) < fanout_mean + 2 * fanout_stdev" for a net of fanout f among
\* the fanouts fan, with the mean S/n and the sample deviation
\* sqrt((Q - S*S/n) / (n - 1)), in whole numbers.
BelowThreshold(f, fan) ==
    LET n == Len(fan)
        S == SumLen(fan, FALSE)
        Q == SumLen(fan, TRUE)
        d == n * f - S
    IN  d < 0 \/ d * d * (n - 1) < 4 * n * (n * Q - S * S)

\* The indices of the nets the remove_high_fanout filter keeps.
\* statistics.stdev raises StatisticsError for fewer than two nets, and
\* then no net is removed.
KeptNets(nets, fan) ==
    IF Len(nets) < 2 THEN DOMAIN nets
    ELSE {k \in DOMAIN nets : BelowThreshold(fan[k], fan)}

\* [net for net in internal_nets if k in K], in list order.
RECURSIVE SelectNets(_, _, _)
SelectNets(nets, K, k) ==
    IF k > Len(nets) THEN <<>>
    ELSE (IF k \in K THEN <<nets[k]>> ELSE <<>>) \o SelectNets(nets, K, k + 1)

\* The filters of group_parts: the list of nets that is grouped and returned.
GroupFilter ==
    /\ gpc = "start"
    /\ node_parts # {}
    /\ ret_nets' = IF remove_high_fanout
                   THEN SelectNets(internal_nets, KeptNets(internal_nets, net_len), 1)
                   ELSE internal_nets
    /\ gpc' = "seed"
    /\ UNCHANGED <<node_parts, internal_nets, connected_parts, floating_parts, net_len,
                   remove_high_fanout, gi>>
    /\ UNCHANGED othersGroup

\* Start with the group of parts on each individual net.
GroupSeed ==
    /\ gpc = "seed"
    /\ connected_parts' = [k \in DOMAIN ret_nets |-> ret_nets[k] \cap node_parts]
    /\ gi' = 1
    /\ gpc' = "join"
    /\ UNCHANGED <<node_parts, internal_nets, floating_parts, ret_nets, net_len,
                   remove_high_fanout>>
    /\ UNCHANGED othersGroup

\* A mutant of JoinGroups: group i is compared with the next group only.
JoinGroupsNextOnly(cp, i) ==
    IF cp[i] \cap cp[i + 1] # {}
    THEN [cp EXCEPT ![i + 1] = cp[i] \cup cp[i + 1], ![i] = {}]
    ELSE cp

\* One pass of the outer joining loop: group i is unioned into the first later
\* group it shares a part with, and emptied.
JoinGroups(cp, i) ==
    LET J == {j \in (i + 1)..Len(cp) : cp[i] \cap cp[j] # {}}
    IN  IF J = {} THEN cp
        ELSE LET j == Min(J)
             IN  [cp EXCEPT ![j] = cp[i] \cup cp[j], ![i] = {}]

GroupJoin ==
    /\ gpc = "join"
    /\ gi <= Len(connected_parts) - 1
    /\ connected_parts' = JoinGroups(connected_parts, gi)
    /\ gi' = gi + 1
    /\ UNCHANGED <<node_parts, internal_nets, floating_parts, ret_nets, net_len,
                   remove_high_fanout, gpc>>
    /\ UNCHANGED othersGroup

\* Drop the emptied groups and collect the floating parts.
GroupFinish ==
    /\ gpc = "join"
    /\ gi > Len(connected_parts) - 1
    /\ connected_parts' = NonEmptyGroups(connected_parts)
    /\ floating_parts' = node_parts \ UNION Range(NonEmptyGroups(connected_parts))
    /\ gpc' = "done"
    /\ UNCHANGED <<node_parts, internal_nets, ret_nets, net_len, remove_high_fanout, gi>>
    /\ UNCHANGED othersGroup

NextGroup ==
    \/ GroupEmpty
    \/ GroupFilter
    \/ GroupSeed
    \/ GroupJoin
    \/ GroupFinish

SpecGroup == InitGroup /\ [][NextGroup]_vars

\* The parts reachable from the parts S over the nets N.
RECURSIVE ReachFrom(_, _)
ReachFrom(S, N) ==
    LET T == S \cup UNION {n \in N : n \cap S # {}}
    IN  IF T = S THEN S ELSE ReachFrom(T, N)

\* The connected components of "two parts share an internal net".
Components(N) == {ReachFrom(n, N) : n \in {m \in N : m # {}}}

(***************************************************************************)
(* C3: group_parts returns pairwise disjoint connected sets that are       *)
(* exactly the connected components of "two parts share an internal net",  *)
(* whatever the order of the net list (the components depend on the set of *)
(* nets only), and the floating set is the parts in no connected set.      *)
(***************************************************************************)
GroupsAreComponents ==
    (gpc = "done" /\ node_parts # {}) =>
        /\ \A a, b \in DOMAIN connected_parts :
              a # b => connected_parts[a] \cap connected_parts[b] = {}
        /\ Range(connected_parts) = Components(Range(internal_nets))
        /\ floating_parts = node_parts \ UNION Components(Range(internal_nets))

\* A net list in which a group has to be joined through a group that is not
\* its neighbour in the list has been grouped.
GroupsJoinedWitness ==
    /\ gpc = "done"
    /\ Len(internal_nets) = 3
    /\ internal_nets[1] \cap internal_nets[2] = {}
    /\ internal_nets[1] \cap internal_nets[3] # {}
    /\ internal_nets[2] \cap internal_nets[3] # {}
    /\ Len(connected_parts) = 1
    /\ floating_parts = {}

(***************************************************************************)
(* Geometry kernel (skidl/schematics/geometry.py): points, transforms and  *)
(* bounding boxes.  Coordinates are integers.                              *)
(***************************************************************************)
\* The routing grid spacing, in model units.  The program takes GRID from
\* the constants of the backend tool; the model's value is a multiple of
\* every part count up to NumElems + 1, so that the mean of a list of grid
\* moves is a whole number of model units.
GRID == 12

Pt(x, y) == [x |-> x, y |-> y]

PtAdd(p, q) == Pt(p.x + q.x, p.y + q.y)

PtSub(p, q) == Pt(p.x - q.x, p.y - q.y)

Abs(n) == IF n < 0 THEN -n ELSE n

\* utilities.sgn
sgn(n) == IF n > 0 THEN 1 ELSE IF n < 0 THEN -1 ELSE 0

\* Tx(a, b, c, d, dx, dy)
Tx(a, b, c, d, dx, dy) == [a |-> a, b |-> b, c |-> c, d |-> d, dx |-> dx, dy |-> dy]

TxIdent == Tx(1, 0, 0, 1, 0, 0)

\* Tx(dx=.., dy=..)
TxMove(dx, dy) == Tx(1, 0, 0, 1, dx, dy)

\* Tx * Tx: the left transform is applied first.
TxMul(t, u) ==
    Tx(t.a * u.a + t.b * u.c, t.a * u.b + t.b * u.d,
       t.c * u.a + t.d * u.c, t.c * u.b + t.d * u.d,
       t.dx * u.a + t.dy * u.c + u.dx, t.dx * u.b + t.dy * u.d + u.dy)

\* Point * Tx
PtTx(p, t) == Pt(p.x * t.a + p.y * t.c + t.dx, p.x * t.b + p.y * t.d + t.dy)

BBox(minx, miny, maxx, maxy) == [minx |-> minx, miny |-> miny, maxx |-> maxx, maxy |-> maxy]

\* BBox * Tx: the box around the transformed corners.
BBoxTx(bb, t) ==
    LET p == PtTx(Pt(bb.minx, bb.miny), t)
        q == PtTx(Pt(bb.maxx, bb.maxy), t)
    IN  BBox(IF p.x < q.x THEN p.x ELSE q.x, IF p.y < q.y THEN p.y ELSE q.y,
             IF p.x < q.x THEN q.x ELSE p.x, IF p.y < q.y THEN q.y ELSE p.y)

\* BBox.intersects: boxes that only touch do not intersect.
Intersects(b1, b2) ==
    /\ b1.minx < b2.maxx
    /\ b1.maxx > b2.minx
    /\ b1.miny < b2.maxy
    /\ b1.maxy > b2.miny

\* round(x / grid) * grid of Point.snap, with Python's round (a tie goes to
\* the even multiple).
SnapCoord(x, grid) ==
    LET q == x \div grid
        r == x % grid
    IN  IF 2 * r < grid THEN q * grid
        ELSE IF 2 * r > grid THEN (q + 1) * grid
        ELSE IF q % 2 = 0 THEN q * grid ELSE (q + 1) * grid

\* Point.snap
PtSnap(p, grid) == Pt(SnapCoord(p.x, grid), SnapCoord(p.y, grid))

OnGrid(p) == p.x % GRID = 0 /\ p.y % GRID = 0

(***************************************************************************)
(* The parts handed to evolve_placement.  Part k has a fixed placement     *)
(* bounding box and a first pin; its transform is the state.               *)
(***************************************************************************)
\* part.place_bbox, in the part's own coordinates.
place_bbox(p) ==
    IF p = 1 THEN BBox(0, 0, 24, 24)
    ELSE IF p % 2 = 0 THEN BBox(0, 0, 30, 12)
    ELSE BBox(-6, 0, 24, 12)

\* get_snap_pt: part.pins[0].pt, in the part's own coordinates.
get_snap_pt(p) == IF p % 2 = 0 THEN Pt(0, 0) ELSE Pt(0, 12)

\* The placements evolve_placement may start from: where random_placement
\* (or push_and_pull, jump_parts, align_parts) left the parts.
StartX == {-24, -7, 0, 5}
StartY == {0, 7, 12}

\* The values random.random() - 0.5 may add to an overlap-clearing move,
\* in model units.
RandOffsets == {-1, 1}

\* A mutant of snap_to_grid: the snap point is taken without the part's
\* transform.
SnapToGridNoTx(p, t) ==
    LET pt == get_snap_pt(p)
        snap_pt == PtSnap(pt, GRID)
        mv == PtSub(snap_pt, pt)
    IN  TxMul(t, TxMove(mv.x, mv.y))

\* snap_to_grid: the transform of part p after snapping.
snap_to_grid(p, t) ==
    LET pt == PtTx(get_snap_pt(p), t)
        snap_pt == PtSnap(pt, GRID)
        mv == PtSub(snap_pt, pt)
    IN  TxMul(t, TxMove(mv.x, mv.y))

\* The move overlap_force computes for a part with box pb against an
\* intersecting part with box ob, when the four random offsets it uses are r.
PairMove(pb, ob, r) ==
    LET mv_left == ob.minx - pb.maxx + r[1]
        mv_right == ob.maxx - pb.minx + r[2]
        mv_up == ob.maxy - pb.miny + r[3]
        mv_down == ob.miny - pb.maxy + r[4]
        mv_lr == IF Abs(mv_left) < Abs(mv_right) THEN mv_left ELSE mv_right
        mv_ud == IF Abs(mv_up) < Abs(mv_down) THEN mv_up ELSE mv_down
    IN  IF Abs(mv_lr) < Abs(mv_ud) THEN Pt(mv_lr, 0) ELSE Pt(0, mv_ud)

\* The moves overlap_force may compute for a part with box pb against an
\* intersecting part with box ob, one for every draw of the random offsets.
PairMoves(pb, ob) == {PairMove(pb, ob, r) : r \in [1..4 -> RandOffsets]}

\* The sums of one move from each of the sets of moves ms[k], k in K.
RECURSIVE SumMoves(_, _)
SumMoves(ms, K) ==
    IF K = {} THEN {Pt(0, 0)}
    ELSE LET k == CHOOSE j \in K : TRUE
         IN  {PtAdd(m, s) : m \in ms[k], s \in SumMoves(ms, K \ {k})}

\* overlap_force: the forces that may result for part p among parts.
overlap_force(p, parts, tx) ==
    LET pb == BBoxTx(place_bbox(p), tx[p])
        others == {o \in Range(parts) \ {p} :
                      Intersects(pb, BBoxTx(place_bbox(o), tx[o]))}
        ms == [o \in others |-> PairMoves(pb, BBoxTx(place_bbox(o), tx[o]))]
    IN  SumMoves(ms, others)

\* sum(vectors) / n, by component.
Mean(vs, K) ==
    LET RECURSIVE Sum(_)
        Sum(S) == IF S = {} THEN Pt(0, 0)
                  ELSE LET k == CHOOSE j \in S : TRUE IN PtAdd(vs[k], Sum(S \ {k}))
        t == Sum(K)
    IN  Pt(t.x \div Cardinality(K), t.y \div Cardinality(K))

NoOverlaps(parts, tx) ==
    \A p, q \in Range(parts) :
        p # q => ~Intersects(BBoxTx(place_bbox(p), tx[p]), BBoxTx(place_bbox(q), tx[q]))

(***************************************************************************)
(* evolve_placement, from its grid snap on.                                *)
(***************************************************************************)
InitEvolve ==
    /\ IdleButEvolve
    /\ \E n \in 1..NumElems :
          /\ ev_parts = [k \in 1..n |-> k]
          /\ ev_tx \in [1..n -> {TxMove(x, y) : x \in StartX, y \in StartY}]
          /\ ev_mv = [k \in 1..n |-> Pt(0, 0)]
    /\ ev_pc = "push_and_pull"
    /\ ev_opts = {}

\* A mutant of OptionOn: every option reads as on.
OptionAlwaysOn(name) == TRUE

\* "options.get(name)" for the options that switch a pass on.
OptionOn(name) == name \in ev_opts

\* push_and_pull: "if not options.get("use_push_pull"): return" and
\* "if len(parts) <= 1: return".
PushAndPullSkip ==
    /\ ev_pc = "push_and_pull"
    /\ ~OptionOn("use_push_pull") \/ Len(ev_parts) <= 1
    /\ ev_pc' = "jump_parts"
    /\ UNCHANGED <<ev_parts, ev_tx, ev_mv, ev_opts>>
    /\ UNCHANGED othersEvolve

\* jump_parts: "if not options.get("allow_jumps"): return".
JumpPartsSkip ==
    /\ ev_pc = "jump_parts"
    /\ ~OptionOn("allow_jumps")
    /\ ev_pc' = "align_parts"
    /\ UNCHANGED <<ev_parts, ev_tx, ev_mv, ev_opts>>
    /\ UNCHANGED othersEvolve

\* align_parts: "if not options.get("align_parts"): return"; with the
\* option on, parts without anchor pins are skipped ("continue").
AlignPartsSkip ==
    /\ ev_pc = "align_parts"
    /\ ev_pc' = "snap"
    /\ UNCHANGED <<ev_parts, ev_tx, ev_mv, ev_opts>>
    /\ UNCHANGED othersEvolve

\* "for part in parts: snap_to_grid(part)"
SnapParts ==
    /\ ev_pc = "snap"
    /\ ev_tx' = [p \in DOMAIN ev_tx |-> snap_to_grid(p, ev_tx[p])]
    /\ ev_pc' = "remove_overlaps"
    /\ UNCHANGED <<ev_parts, ev_mv, ev_opts>>
    /\ UNCHANGED othersEvolve

\* remove_overlaps with at most one part: nothing to do.
RemoveOverlapsSkip ==
    /\ ev_pc = "remove_overlaps"
    /\ Len(ev_parts) <= 1
    /\ ev_pc' = "slip_and_slide"
    /\ UNCHANGED <<ev_parts, ev_tx, ev_mv, ev_opts>>
    /\ UNCHANGED othersEvolve

\* "part.mv = Vector(sgn(shove_force.x), sgn(shove_force.y)) * GRID", for
\* every force repulsive_force may return.
ShoveMoves(p, parts, tx) ==
    {Pt(sgn(f.x) * GRID, sgn(f.y) * GRID) : f \in overlap_force(p, parts, tx)}

\* The ways the loop "for part in mobile_parts" may set part.mv for the
\* parts K: one shove for each part.
RECURSIVE AllShoves(_, _, _)
AllShoves(K, parts, tx) ==
    IF K = {} THEN {<<>>}
    ELSE LET k == Max(K)
         IN  {Append(f, m) : f \in AllShoves(K \ {k}, parts, tx),
                             m \in ShoveMoves(k, parts, tx)}

\* A mutant of ShoveMove: the group drift is not subtracted.
ShoveMoveNoDrift(mv, drift_mv) == mv

\* "mv = part.mv - drift_mv"
ShoveMove(mv, drift_mv) == PtSub(mv, drift_mv)

\* remove_overlaps: "overlaps" is set to False at the top of the loop body
\* and never set again, so the body runs once: every part is shoved one grid
\* step along the sign of its overlap force, less the mean shove.
RemoveOverlaps ==
    /\ ev_pc = "remove_overlaps"
    /\ Len(ev_parts) > 1
    /\ \E mv \in AllShoves(DOMAIN ev_tx, ev_parts, ev_tx) :
          /\ LET drift_mv == Mean(mv, DOMAIN ev_tx)
             IN  /\ ev_mv' = mv
                 /\ ev_tx' = [p \in DOMAIN ev_tx |->
                                 LET m == ShoveMove(mv[p], drift_mv)
                                 IN  TxMul(ev_tx[p], TxMove(m.x, m.y))]
    /\ ev_pc' = "slip_and_slide"
    /\ UNCHANGED <<ev_parts, ev_opts>>
    /\ UNCHANGED othersEvolve

\* slip_and_slide with the slip_and_slide option off, with at most one part,
\* or without nets (nets is an input of evolve_placement).
SlipAndSlideSkip ==
    /\ ev_pc = "slip_and_slide"
    /\ \E nets \in BOOLEAN :
          ~OptionOn("slip_and_slide") \/ Len(ev_parts) <= 1 \/ ~nets
    /\ ev_pc' = "done"
    /\ UNCHANGED <<ev_parts, ev_tx, ev_mv, ev_opts>>
    /\ UNCHANGED othersEvolve

NextEvolve ==
    \/ PushAndPullSkip
    \/ JumpPartsSkip
    \/ AlignPartsSkip
    \/ SnapParts
    \/ RemoveOverlapsSkip
    \/ RemoveOverlaps
    \/ SlipAndSlideSkip

SpecEvolve == InitEvolve /\ [][NextEvolve]_vars

(***************************************************************************)
(* C1: when evolve_placement is done, no two of the parts (or blocks) it   *)
(* was given have intersecting placement bounding boxes under their final  *)
(* transforms.                                                             *)
(***************************************************************************)
PlacedWithoutOverlaps ==
    ev_pc = "done" => NoOverlaps(ev_parts, ev_tx)

(***************************************************************************)
(* C2: when evolve_placement is done, the snap point of every part (its    *)
(* first pin under the part's transform) is on the grid: the passes after  *)
(* the grid snap keep it there.                                            *)
(***************************************************************************)
PlacedOnGrid ==
    ev_pc = "done" =>
        \A p \in DOMAIN ev_tx : OnGrid(PtTx(get_snap_pt(p), ev_tx[p]))

(***************************************************************************)
(* adjust_orientations and net_tension_dist.                               *)
(*                                                                         *)
(* The parts 1..n of a connected group have two pins each; pin k is a pin  *)
(* of part (k + 1) \div 2.  A net is the set of its pins.                  *)
(***************************************************************************)
OrientPins(n) == 1..(2 * n)

\* pin.part
PinPart(k) == (k + 1) \div 2

\* pin.place_pt, in the part's own coordinates.
PinPlacePt(k) == IF k % 2 = 1 THEN Pt(3, 0) ELSE Pt(0, -2)

\* The translations the parts may have when adjust_orientations is called.
OrientStarts == {Pt(0, 0), Pt(8, 0), Pt(0, 6)}

\* The net lists of the group: one or two nets of two or three pins, on
\* different parts, no pin on two nets.
OrientNet(n) ==
    {N \in SUBSET OrientPins(n) :
        /\ Cardinality(N) \in {2, 3}
        /\ Cardinality({PinPart(k) : k \in N}) > 1}

OrientNetLists(n) ==
    {<<N>> : N \in OrientNet(n)}
    \cup {L \in {<<N, M>> : N \in {A \in OrientNet(n) : 1 \in A /\ Cardinality(A) = 2},
                            M \in {B \in OrientNet(n) : Cardinality(B) = 2}} :
             L[1] \cap L[2] = {}}

\* Distances are kept in units of 1/DistScale, rounded down.
DistScale == 8

\* The integer square root of n.
RECURSIVE ISqrtIn(_, _, _)
ISqrtIn(n, lo, hi) ==
    IF lo >= hi THEN lo
    ELSE LET mid == (lo + hi + 1) \div 2
         IN  IF mid * mid <= n THEN ISqrtIn(n, mid, hi) ELSE ISqrtIn(n, lo, mid - 1)

ISqrt(n) == ISqrtIn(n, 0, 1024)

\* Vector.magnitude of p - q.
Magnitude(p, q) ==
    ISqrt(DistScale * DistScale * ((p.x - q.x) * (p.x - q.x) + (p.y - q.y) * (p.y - q.y)))

\* Tx.rot_cw_90: a quarter turn, composed after the transform.
rot_cw_90(t) == TxMul(t, Tx(0, 1, -1, 0, 0, 0))

\* Tx.flip_x: a mirror of the x axis, composed after the transform.
flip_x(t) == TxMul(t, Tx(-1, 0, 0, 1, 0, 0))

\* part.anchor_pins[net]: the pins of the net on the part.
anchor_pins(p, net) == {k \in net : PinPart(k) = p}

\* part.pull_pins[net]: the pins of the net on the other parts.
pull_pins(p, net) == {k \in net : PinPart(k) # p}

\* Sum of f[k] over k in K.
RECURSIVE SumOver(_, _)
SumOver(f, K) ==
    IF K = {} THEN 0
    ELSE LET k == CHOOSE j \in K : TRUE IN f[k] + SumOver(f, K \ {k})

\* net_tension_dist: the tension of part p when the parts have transforms tx.
net_tension(p, nets, tx) ==
    LET pt(k) == PtTx(PinPlacePt(k), tx[PinPart(k)])
        netTension(net) ==
            IF anchor_pins(p, net) = {} \/ pull_pins(p, net) = {} THEN 0
            ELSE SumOver([a \in anchor_pins(p, net) |->
                             Min({Magnitude(pt(a), pt(pp)) : pp \in pull_pins(p, net)})],
                         anchor_pins(p, net))
    IN  SumOver([i \in DOMAIN nets |-> netTension(nets[i])], DOMAIN nets)

\* The orientations find_best_orientation goes through after the starting
\* one, in its order: three quarter turns, then the flipped part and its
\* three quarter turns.
Alternatives(t) ==
    LET r1 == rot_cw_90(t)
        r2 == rot_cw_90(r1)
        r3 == rot_cw_90(r2)
        f0 == flip_x(rot_cw_90(r3))
        f1 == rot_cw_90(f0)
        f2 == rot_cw_90(f1)
        f3 == rot_cw_90(f2)
    IN  <<r1, r2, r3, f0, f1, f2, f3>>

\* The loop of find_best_orientation from alternative i on: an alternative
\* replaces the best one so far when its change in tension is lower.
RECURSIVE BestFrom(_, _, _, _, _, _, _, _)
BestFrom(i, alts, p, nets, tx, current_cost, best_delta_cost, best_tx) ==
    IF i > Len(alts)
    THEN [delta_cost |-> best_delta_cost, delta_cost_tx |-> best_tx]
    ELSE LET delta_cost == net_tension(p, nets, [tx EXCEPT ![p] = alts[i]]) - current_cost
         IN  IF i = 1 \/ delta_cost < best_delta_cost
             THEN BestFrom(i + 1, alts, p, nets, tx, current_cost, delta_cost, alts[i])
             ELSE BestFrom(i + 1, alts, p, nets, tx, current_cost, best_delta_cost, best_tx)

\* find_best_orientation: the first of the alternatives with the largest
\* decrease in the part's tension, and that change in tension.
find_best_orientation(p, nets, tx) ==
    BestFrom(1, Alternatives(tx[p]), p, nets, tx, net_tension(p, nets, tx), 0, tx[p])

\* list.remove
RECURSIVE Remove(_, _)
Remove(seq, e) ==
    IF seq = <<>> THEN <<>>
    ELSE IF Head(seq) = e THEN Tail(seq)
         ELSE <<Head(seq)>> \o Remove(Tail(seq), e)

\* itertools.accumulate of [0] + the delta costs of the moved parts.
cost_seq(moved, delta_cost) ==
    [i \in 1..(Len(moved) + 1) |->
        SumOver([j \in 1..(i - 1) |-> delta_cost[moved[j]]], 1..(i - 1))]

\* A mutant of min_index: the last lowest point of the cost sequence.
min_index_last(cs) ==
    Max({i \in DOMAIN cs : \A j \in DOMAIN cs : cs[i] <= cs[j]}) - 1

\* cost_seq.index(min(cost_seq)), counted from 0.
min_index(cs) ==
    Min({i \in DOMAIN cs : \A j \in DOMAIN cs : cs[i] <= cs[j]}) - 1

\* "for iter_cnt in range(10)"
MaxPasses == 10

\* A mutant of Unlocked: the locked parts are taken as movable too.
UnlockedAll(parts, locked) == parts

\* [part for part in parts if not part.orientation_locked]
RECURSIVE Unlocked(_, _)
Unlocked(parts, locked) ==
    IF parts = <<>> THEN <<>>
    ELSE IF locked[Head(parts)] THEN Unlocked(Tail(parts), locked)
         ELSE <<Head(parts)>> \o Unlocked(Tail(parts), locked)

\* The attributes find_best_orientation leaves on a part, before they are
\* set and after rmv_attr has removed them.
NoBest == [prev_tx |-> TxIdent, delta_cost |-> 0, delta_cost_tx |-> TxIdent]

InitOrient ==
    /\ IdleButOrient
    /\ \E n \in 2..NumOrient :
          /\ or_parts = [k \in 1..n |-> k]
          /\ or_locked \in [1..n -> BOOLEAN]
          /\ or_nets \in OrientNetLists(n)
          /\ or_tx \in {t \in [1..n -> {TxMove(s.x, s.y) : s \in OrientStarts}] :
                         t[1] = TxMove(0, 0)}
          /\ or_best = [k \in 1..n |-> NoBest]
    /\ or_tx0 = or_tx
    /\ or_pass_tx = or_tx
    /\ or_moved = <<>>
    /\ or_unmoved = <<>>
    /\ or_iter = 0
    /\ or_ret = "unset"
    /\ or_pc = "start"

\* No movable parts: "return" without doing anything.
OrientNoneMovable ==
    /\ or_pc = "start"
    /\ Unlocked(or_parts, or_locked) = <<>>
    /\ or_ret' = "None"
    /\ or_pc' = "done"
    /\ UNCHANGED <<or_parts, or_locked, or_nets, or_tx, or_tx0, or_pass_tx, or_best, or_moved,
                   or_unmoved, or_iter>>
    /\ UNCHANGED othersOrient

\* The first pass begins.
OrientStart ==
    /\ or_pc = "start"
    /\ Unlocked(or_parts, or_locked) # <<>>
    /\ or_iter' = 0
    /\ or_moved' = <<>>
    /\ or_unmoved' = Unlocked(or_parts, or_locked)
    /\ or_pc' = "pass"
    /\ UNCHANGED <<or_parts, or_locked, or_nets, or_tx, or_tx0, or_pass_tx, or_best, or_ret>>
    /\ UNCHANGED othersOrient

\* "for part in unmoved_parts: find_best_orientation(part)": what is found
\* for each part of the list, in the order of the list.
RECURSIVE FindAll(_, _, _)
FindAll(unmoved, nets, tx) ==
    IF unmoved = <<>> THEN <<>>
    ELSE <<find_best_orientation(Head(unmoved), nets, tx)>> \o FindAll(Tail(unmoved), nets, tx)

\* min(unmoved_parts, key=lambda p: p.delta_cost): the index of the first
\* of the parts with the lowest delta cost.
part_to_move(found) ==
    Min({i \in DOMAIN found :
           \A j \in DOMAIN found : found[i].delta_cost <= found[j].delta_cost})

\* One turn of "while unmoved_parts": the best orientation of every unmoved
\* part is found, and the part that gains most is reoriented and moved to
\* the moved parts.
OrientMove ==
    /\ or_pc = "pass"
    /\ or_unmoved # <<>>
    /\ LET found == FindAll(or_unmoved, or_nets, or_tx)
           i == part_to_move(found)
           m == or_unmoved[i]
       IN  /\ or_best' = [p \in DOMAIN or_best |->
                             IF \E j \in DOMAIN or_unmoved : or_unmoved[j] = p
                             THEN LET j == CHOOSE j \in DOMAIN or_unmoved : or_unmoved[j] = p
                                  IN  [prev_tx |-> or_tx[p],
                                       delta_cost |-> found[j].delta_cost,
                                       delta_cost_tx |-> found[j].delta_cost_tx]
                             ELSE or_best[p]]
           /\ or_tx' = [or_tx EXCEPT ![m] = found[i].delta_cost_tx]
           /\ or_unmoved' = Remove(or_unmoved, m)
           /\ or_moved' = Append(or_moved, m)
    /\ UNCHANGED <<or_parts, or_locked, or_nets, or_tx0, or_pass_tx, or_iter, or_ret, or_pc>>
    /\ UNCHANGED othersOrient

\* "for part in moved_parts[min_index:]: part.tx = part.prev_tx"
rollback(tx, moved, best, mi) ==
    [p \in DOMAIN tx |->
        IF \E i \in (mi + 1)..Len(moved) : moved[i] = p THEN best[p].prev_tx ELSE tx[p]]

\* The end of a pass: the moves after the lowest point of the cost sequence
\* are undone.  The search ends when no move is kept or after the last
\* pass, and goes into the next pass otherwise.
OrientEndPass ==
    /\ or_pc = "pass"
    /\ or_unmoved = <<>>
    /\ LET mi == min_index(cost_seq(or_moved, [p \in DOMAIN or_best |-> or_best[p].delta_cost]))
       IN  /\ or_tx' = rollback(or_tx, or_moved, or_best, mi)
           /\ or_pass_tx' = rollback(or_tx, or_moved, or_best, mi)
           /\ IF mi = 0 \/ or_iter = MaxPasses - 1
              THEN /\ or_pc' = "done"
                   /\ or_ret' = IF or_iter > 0 THEN "True" ELSE "False"
                   /\ or_best' = [p \in DOMAIN or_best |-> NoBest]
                   /\ UNCHANGED <<or_iter, or_moved, or_unmoved>>
              ELSE /\ or_iter' = or_iter + 1
                   /\ or_moved' = <<>>
                   /\ or_unmoved' = Unlocked(or_parts, or_locked)
                   /\ UNCHANGED <<or_pc, or_ret, or_best>>
    /\ UNCHANGED <<or_parts, or_locked, or_nets, or_tx0>>
    /\ UNCHANGED othersOrient

NextOrient ==
    \/ OrientNoneMovable
    \/ OrientStart
    \/ OrientMove
    \/ OrientEndPass

SpecOrient == InitOrient /\ [][NextOrient]_vars

\* The net tension of the whole group: the sum of the tensions of its parts.
total_tension(parts, nets, tx) ==
    SumOver([p \in Range(parts) |-> net_tension(p, nets, tx)], Range(parts))

(***************************************************************************)
(* C4: the total net tension of the group after adjust_orientations has    *)
(* returned is at most the total net tension before the call.              *)
(***************************************************************************)
OrientationNeverWorsens ==
    or_pc = "done" =>
        total_tension(or_parts, or_nets, or_tx) <= total_tension(or_parts, or_nets, or_tx0)

(***************************************************************************)
(* push_and_pull                                                           *)
(*                                                                         *)
(* force_func is an argument of push_and_pull, and the force functions of  *)
(* the placer draw random numbers (overlap_force), so the force on a part  *)
(* is an input of every iteration: it is taken from a small set of         *)
(* vectors.  Coordinates are exact.  A force is a multiple of              *)
(* SpeedDen * n, so that neither the mean over the n parts nor the speed   *)
(* 1 / SpeedDen leaves a remainder; part.mv_avg is a decimal fraction      *)
(* v / 10^s with the least s.  A run whose numbers no longer fit           *)
(* (MaxDigits, MaxCoord) ends in the position "cut".                       *)
(***************************************************************************)
\* Largest number of parts handed to push_and_pull.
NumPush == 3
\* Largest number of decimal places of mv_avg, largest coordinate of a part.
MaxDigits == 1
MaxCoord == 20

\* N, the number of steps of alpha_schedule.
N == 5
\* speed = 0.25 = 1 / SpeedDen
SpeedDen == 4

PtScale(p, k) == Pt(p.x * k, p.y * k)

\* p / k, for a p whose coordinates are multiples of k
PtDiv(p, k) == Pt(p.x \div k, p.y \div k)

\* sum(..., start=Vector(0,0))
RECURSIVE SumPts(_)
SumPts(seq) == IF seq = <<>> THEN Pt(0, 0) ELSE PtAdd(Head(seq), SumPts(Tail(seq)))

RECURSIVE Pow10(_)
Pow10(k) == IF k = 0 THEN 1 ELSE 10 * Pow10(k - 1)

\* part.place_bbox
push_bbox(p) == IF p = 1 THEN BBox(0, 0, 60, 40) ELSE BBox(0, 0, 300, 100)

\* bbox.w, bbox.h
BBoxW(bb) == Abs(bb.maxx - bb.minx)
BBoxH(bb) == Abs(bb.maxy - bb.miny)

\* What force_func may return for the first and for the last part, in units
\* of SpeedDen * n; the parts between them feel no force.
FirstForces == {Pt(0, 0), Pt(1, 0), Pt(19, 0), Pt(-19, 0), Pt(0, -8)}
LastForces == {Pt(0, 0), Pt(1, 0)}

\* The forces force_func may return for the n parts in one iteration.
PushForces(n) ==
    UNION {{[i \in 1..n |->
                PtScale(IF i = 1 THEN f ELSE IF i = n THEN g ELSE Pt(0, 0), SpeedDen * n)] :
              g \in IF f = Pt(0, -8) THEN LastForces ELSE {Pt(0, 0)}} :
           f \in FirstForces}

\* The decimal fraction v / 10^s with the least s.
RECURSIVE Decimal(_, _)
Decimal(v, s) ==
    IF s > 0 /\ v.x % 10 = 0 /\ v.y % 10 = 0 THEN Decimal(PtDiv(v, 10), s - 1)
    ELSE [v |-> v, s |-> s]

ZeroAvg == [v |-> Pt(0, 0), s |-> 0]

\* The drift force with the division by len(mobile_parts) left out.
DriftForceTotal(force) == SumPts(force)

\* drift_force = sum([part.force for part in mobile_parts]) / len(mobile_parts)
drift_force(force) == PtDiv(SumPts(force), Len(force))

\* part.force -= drift_force
ForceLessDrift(force) == [i \in DOMAIN force |-> PtSub(force[i], drift_force(force))]

\* part.mv = part.force * speed
PartMv(force) == [i \in DOMAIN force |-> PtDiv(ForceLessDrift(force)[i], SpeedDen)]

\* part.tx *= Tx(dx=part.mv.x, dy=part.mv.y)
MovedTx(tx, mv) == [i \in DOMAIN tx |-> TxMul(tx[i], TxMove(mv[i].x, mv[i].y))]

\* part.mv_avg = (1-mv_avg_coef) * part.mv_avg + mv_avg_coef * part.mv
MvAvg(avg, coef, mv) ==
    Decimal(PtAdd(PtScale(avg.v, 10 - coef), PtScale(mv, coef * Pow10(avg.s))), avg.s + 1)

\* stillness_coef = 0.001 at the last alpha, 0.01 before: 1 / 10^e
\* A mutant of StillnessDigits: the last alpha has the threshold of the others.
StillnessDigitsSame(alpha) == 2

StillnessDigits(alpha) == IF alpha = N THEN 3 ELSE 2

\* p.mv_avg.magnitude < 10^-e * (p.place_bbox.w + p.place_bbox.h)
BelowFraction(avg, p, e) ==
    LET l == Pow10(Max({e - avg.s, 0}))
        r == Pow10(Max({avg.s - e, 0})) * (BBoxW(push_bbox(p)) + BBoxH(push_bbox(p)))
        x == l * Abs(avg.v.x)
        y == l * Abs(avg.v.y)
    IN  x < r /\ y < r /\ x * x + y * y < r * r

\* p.mv_avg.magnitude < stillness_coef * (p.place_bbox.w + p.place_bbox.h)
IsStill(avg, p, alpha) == BelowFraction(avg, p, StillnessDigits(alpha))

\* The numbers of a state fit the model.
InHorizon(tx, avg) ==
    \A i \in DOMAIN tx :
        /\ avg[i].s <= MaxDigits
        /\ Abs(tx[i].dx) <= MaxCoord
        /\ Abs(tx[i].dy) <= MaxCoord

InitPush ==
    /\ IdleButPush
    /\ \E n \in 1..NumPush :
          /\ pp_parts = [i \in 1..n |-> i]
          /\ pp_tx = [i \in 1..n |-> TxMove(0, 4 * (i - 1))]
          /\ pp_force = [i \in 1..n |-> Pt(0, 0)]
          /\ pp_mv = [i \in 1..n |-> Pt(0, 0)]
          /\ pp_mv_avg = [i \in 1..n |-> ZeroAvg]
    /\ pp_use \in BOOLEAN
    /\ pp_attr \in BOOLEAN
    /\ pp_mv_avg_coef = 10
    /\ pp_alpha = 0
    /\ pp_pc = "start"

\* if not options.get("use_push_pull"): return;  if len(parts) <= 1: return
PushSkip ==
    /\ pp_pc = "start"
    /\ ~pp_use \/ Len(pp_parts) <= 1
    /\ pp_pc' = "done"
    /\ UNCHANGED <<pp_parts, pp_use, pp_attr, pp_tx, pp_force, pp_mv, pp_mv_avg,
                   pp_mv_avg_coef, pp_alpha>>
    /\ UNCHANGED othersPush

\* scale_attractive_repulsive_forces puts the transforms back and then
\* divides by attractive_forces_sum: when force_func finds no attraction at
\* the random placement, the division raises ZeroDivisionError.
PushScaleFails ==
    /\ pp_pc = "start"
    /\ pp_use /\ Len(pp_parts) > 1
    /\ ~pp_attr
    /\ pp_pc' = "raised"
    /\ UNCHANGED <<pp_parts, pp_use, pp_attr, pp_tx, pp_force, pp_mv, pp_mv_avg,
                   pp_mv_avg_coef, pp_alpha>>
    /\ UNCHANGED othersPush

\* The scale is found and the transforms restored; the first alpha of the
\* schedule is entered: mv_avg cleared, mv_avg_coef = 1.
PushBegin ==
    /\ pp_pc = "start"
    /\ pp_use /\ Len(pp_parts) > 1
    /\ pp_attr
    /\ pp_alpha' = 0
    /\ pp_mv_avg' = [i \in DOMAIN pp_parts |-> ZeroAvg]
    /\ pp_mv_avg_coef' = 10
    /\ pp_pc' = "loop"
    /\ UNCHANGED <<pp_parts, pp_use, pp_attr, pp_tx, pp_force, pp_mv>>
    /\ UNCHANGED othersPush

\* One iteration of the while True loop that does not pass the stillness
\* test: the loop goes round again.
PushMove ==
    /\ pp_pc = "loop"
    /\ \E f \in PushForces(Len(pp_parts)) :
          LET mv == PartMv(f)
              tx == MovedTx(pp_tx, mv)
              avg == [i \in DOMAIN pp_parts |-> MvAvg(pp_mv_avg[i], pp_mv_avg_coef, mv[i])]
          IN  /\ InHorizon(tx, avg)
              /\ ~ \A i \in DOMAIN pp_parts : IsStill(avg[i], pp_parts[i], pp_alpha)
              /\ pp_force' = ForceLessDrift(f)
              /\ pp_mv' = mv
              /\ pp_tx' = tx
              /\ pp_mv_avg' = avg
    /\ pp_mv_avg_coef' = 1
    /\ UNCHANGED <<pp_parts, pp_use, pp_attr, pp_alpha, pp_pc>>
    /\ UNCHANGED othersPush

\* One iteration that passes the stillness test before the last alpha: break,
\* and the next alpha is entered (mv_avg cleared, mv_avg_coef = 1).
PushNextAlpha ==
    /\ pp_pc = "loop"
    /\ pp_alpha < N
    /\ \E f \in PushForces(Len(pp_parts)) :
          LET mv == PartMv(f)
              tx == MovedTx(pp_tx, mv)
              avg == [i \in DOMAIN pp_parts |-> MvAvg(pp_mv_avg[i], pp_mv_avg_coef, mv[i])]
          IN  /\ InHorizon(tx, avg)
              /\ \A i \in DOMAIN pp_parts : IsStill(avg[i], pp_parts[i], pp_alpha)
              /\ pp_force' = ForceLessDrift(f)
              /\ pp_mv' = mv
              /\ pp_tx' = tx
    /\ pp_mv_avg' = [i \in DOMAIN pp_parts |-> ZeroAvg]
    /\ pp_mv_avg_coef' = 10
    /\ pp_alpha' = pp_alpha + 1
    /\ UNCHANGED <<pp_parts, pp_use, pp_attr, pp_pc>>
    /\ UNCHANGED othersPush

\* One iteration that passes the stillness test at the last alpha: break, and
\* push_and_pull returns.
PushDone ==
    /\ pp_pc = "loop"
    /\ pp_alpha = N
    /\ \E f \in PushForces(Len(pp_parts)) :
          LET mv == PartMv(f)
              tx == MovedTx(pp_tx, mv)
              avg == [i \in DOMAIN pp_parts |-> MvAvg(pp_mv_avg[i], pp_mv_avg_coef, mv[i])]
          IN  /\ InHorizon(tx, avg)
              /\ \A i \in DOMAIN pp_parts : IsStill(avg[i], pp_parts[i], pp_alpha)
              /\ pp_force' = ForceLessDrift(f)
              /\ pp_mv' = mv
              /\ pp_tx' = tx
              /\ pp_mv_avg' = avg
    /\ pp_mv_avg_coef' = 1
    /\ pp_pc' = "done"
    /\ UNCHANGED <<pp_parts, pp_use, pp_attr, pp_alpha>>
    /\ UNCHANGED othersPush

\* One iteration whose numbers no longer fit the model: the run is followed
\* no further.
PushCut ==
    /\ pp_pc = "loop"
    /\ \E f \in PushForces(Len(pp_parts)) :
          LET mv == PartMv(f)
              tx == MovedTx(pp_tx, mv)
              avg == [i \in DOMAIN pp_parts |-> MvAvg(pp_mv_avg[i], pp_mv_avg_coef, mv[i])]
          IN  ~InHorizon(tx, avg)
    /\ pp_pc' = "cut"
    /\ UNCHANGED <<pp_parts, pp_use, pp_attr, pp_tx, pp_force, pp_mv, pp_mv_avg,
                   pp_mv_avg_coef, pp_alpha>>
    /\ UNCHANGED othersPush

NextPush ==
    \/ PushSkip
    \/ PushScaleFails
    \/ PushBegin
    \/ PushMove
    \/ PushNextAlpha
    \/ PushDone
    \/ PushCut

SpecPush == InitPush /\ [][NextPush]_vars

\* The while loop goes round as long as it can.
SpecPushFair == SpecPush /\ WF_vars(NextPush)

\* The translation of a transform.
TxOrigin(t) == Pt(t.dx, t.dy)

(***************************************************************************)
(* C5: in every iteration of the movement loop of push_and_pull the        *)
(* displacements applied to the parts (part.mv, and the change of the      *)
(* parts' transforms) sum to the zero vector.                              *)
(***************************************************************************)
DriftFree ==
    [][pp_pc = "loop" =>
          /\ SumPts(pp_mv') = Pt(0, 0)
          /\ SumPts([i \in DOMAIN pp_tx |-> PtSub(TxOrigin(pp_tx'[i]), TxOrigin(pp_tx[i]))])
                 = Pt(0, 0)]_varsPush

\* Three parts have moved under forces on the first and the last of them.
DriftFreeWitness ==
    /\ pp_pc = "loop"
    /\ pp_mv_avg_coef = 1
    /\ pp_mv = <<Pt(-1, -16), Pt(-1, 8), Pt(2, 8)>>
    /\ pp_tx[3].dx = 2

(***************************************************************************)
(* C8: push_and_pull always terminates: the movement loop is left after a  *)
(* bounded number of iterations, also when the parts never pass the        *)
(* stillness test.                                                         *)
(***************************************************************************)
PushPullTerminates == <>(pp_pc \in {"done", "raised", "cut"})

(***************************************************************************)
(* Placer.place on one node.  The node has parts 1..n; part p has the two  *)
(* pins 2p-1 and 2p, and pin 2p-1 is its top-most pin.  A pin is of one of *)
(* four kinds:                                                             *)
(*   "net"   on the internal net of the node (pin.stub is False and the    *)
(*           pin is connected);                                            *)
(*   "ext"   connected and not a stub, on a net that is not in the list    *)
(*           of internal nets;                                             *)
(*   "stub"  connected, pin.stub is True;                                  *)
(*   "nc"    not connected.                                                *)
(* The transient fields are modelled by the set of fields an object has.   *)
(* The geometry of the placement is left open: a placed part or block      *)
(* gets any translation of PlacedPts.                                      *)
(***************************************************************************)
\* Largest number of parts in the node.
NumPlace == 2
\* Largest number of children of the node.
NumChildren == 2

Cardinal == {"U", "D", "L", "R"}

\* The orientation of a pin whose orientation is given correctly.
GoodOrientation(k) == IF k % 4 = 0 THEN "U" ELSE IF k % 4 = 1 THEN "D"
                      ELSE IF k % 4 = 2 THEN "L" ELSE "R"

PartFields == {"anchor_pins", "pull_pins", "pin_ctrs", "force", "mv", "mv_avg"}
PinFields == {"route_pt", "place_pt"}
NetFields == {"parts"}

\* Translations a placement may give to a part or a block.
PlacedPts == {Pt(0, 0), Pt(GRID, 0)}

PartPins(p) == {2 * p - 1, 2 * p}

\* max(part.pins, key=lambda pin: pin.pt.y)
TopPin(p) == 2 * p - 1

PinsOf(parts) == UNION {PartPins(p) : p \in parts}

\* pin.stub is False and pin.is_connected()
IsRouted(k) == pl_kind[k] \in {"net", "ext"}

\* add_placement_bboxes raises KeyError at padding[pin.orientation] += 1.
BBoxKeyError(parts) ==
    \E k \in PinsOf(parts) : IsRouted(k) /\ pl_orient[k] \notin Cardinal

\* pins = {pin for pin in net.pins if pin.part in parts}
NetPins(parts) == {k \in PinsOf(parts) : pl_kind[k] = "net"}

\* The parts of the node that have a pin on the internal net.
NetParts == {PinPart(k) : k \in NetPins(Range(pl_parts))}

\* The parts group_parts puts in a connected group: none when the net has
\* been dropped from the net list by a filter.
GroupedParts == IF pl_filter THEN {} ELSE NetParts

\* The fields add_anchor_pull_pins gives to every part of parts.
AnchorFields == {"anchor_pins", "pull_pins", "pin_ctrs"}

\* The fields evolve_placement leaves on its parts.
EvolveFields(parts, pushing) ==
    IF Cardinality(parts) <= 1 THEN {}
    ELSE IF pushing THEN {"force", "mv", "mv_avg"} ELSE {"mv"}

WithFields(attr, objs, fields) ==
    [o \in DOMAIN attr |-> IF o \in objs THEN attr[o] \cup fields ELSE attr[o]]

\* random_placement followed by the moves of evolve_placement.
PlacedTxs(tx, parts) ==
    {[p \in DOMAIN tx |-> IF p \in parts THEN TxMove(f[p].x, f[p].y) ELSE tx[p]] :
        f \in [parts -> PlacedPts]}

\* part.tx *= blk.tx for the parts of the part blocks.
BlockedTxs(tx, parts) ==
    {[p \in DOMAIN tx |-> IF p \in parts THEN TxMul(tx[p], TxMove(f[p].x, f[p].y)) ELSE tx[p]] :
        f \in {g \in [parts -> PlacedPts] :
                 \A p, q \in parts : (p \in NetParts) = (q \in NetParts) => g[p] = g[q]}}

NoFields(objs) == [o \in objs |-> {}]

InitPlace ==
    /\ IdleButPlace
    /\ \E n \in 1..NumPlace :
         /\ pl_parts = [i \in 1..n |-> i]
         /\ pl_kind \in {f \in [1..(2 * n) -> {"net", "ext", "stub", "nc"}] :
                           \A p \in 1..n : /\ f[TopPin(p)] \in {"net", "nc"}
                                           /\ f[2 * p] \in {"ext", "stub", "nc"}}
         /\ \E bad \in 0..(2 * n) :
              pl_orient = [k \in 1..(2 * n) |-> IF k = bad THEN "X" ELSE GoodOrientation(k)]
         /\ pl_tx = [p \in 1..n |-> TxIdent]
         /\ pl_tx0 = pl_tx
         /\ pl_part_attr = NoFields(1..n)
         /\ pl_pin_attr = NoFields(1..(2 * n))
    /\ pl_net_attr = {}
    /\ pl_push \in BOOLEAN
    /\ pl_sim \in BOOLEAN
    /\ pl_filter \in BOOLEAN
    /\ pl_log = <<"random.seed">>
    /\ \E c \in {0, NumChildren} :
         /\ pl_children = [i \in 1..c |-> "input"]
         /\ pl_child_tx = [i \in 1..c |-> TxIdent]
         /\ pl_fail \in {"none", "connected", "floating", "blocks"}
                           \cup (IF c > 0 THEN {"child"} ELSE {})
    /\ pl_groups = <<>>
    /\ pl_floating = {}
    /\ pl_gi = 1
    /\ pl_ci = 1
    /\ pl_err = "none"
    /\ pl_pc = "children"

\* child.place(tool=tool, **options) returns; the options it is given hold
\* the seed, and it starts with random.seed(options.get("seed")) as every
\* place call does.
PlaceChild ==
    /\ pl_pc = "children"
    /\ pl_ci <= Len(pl_children)
    /\ ~(pl_fail = "child" /\ pl_ci = Len(pl_children))
    /\ pl_children' = [pl_children EXCEPT ![pl_ci] = "placed"]
    /\ pl_ci' = pl_ci + 1
    /\ pl_log' = pl_log \o <<"child.place", "random.seed">>
    /\ UNCHANGED <<pl_parts, pl_kind, pl_orient, pl_push, pl_sim, pl_filter, pl_fail, pl_part_attr, pl_pin_attr,
                   pl_net_attr, pl_tx, pl_tx0, pl_child_tx, pl_groups, pl_floating, pl_gi,
                   pl_err, pl_pc>>
    /\ UNCHANGED othersPlace

\* child.place(tool=tool, **options) raises PlacementFailure.
PlaceChildGivesUp ==
    /\ pl_pc = "children"
    /\ pl_ci <= Len(pl_children)
    /\ pl_fail = "child" /\ pl_ci = Len(pl_children)
    /\ pl_pc' = "except"
    /\ pl_log' = pl_log \o <<"child.place", "random.seed">>
    /\ UNCHANGED <<pl_parts, pl_children, pl_kind, pl_orient, pl_push, pl_sim, pl_filter, pl_fail, pl_part_attr,
                   pl_pin_attr, pl_net_attr, pl_tx, pl_tx0, pl_child_tx, pl_groups,
                   pl_floating, pl_gi, pl_ci, pl_err>>
    /\ UNCHANGED othersPlace

\* A mutant of ChildrenDone: the node does not wait for its children.
ChildrenDoneEarly == TRUE

\* The loop "for child in node.children.values()" has placed every child.
ChildrenDone == pl_ci > Len(pl_children)

\* connected_parts, internal_nets, floating_parts = node.group_parts(**options)
PlaceGroupParts ==
    /\ pl_pc = "children"
    /\ ChildrenDone
    /\ pl_groups' = IF GroupedParts = {} THEN <<>> ELSE <<GroupedParts>>
    /\ pl_floating' = Range(pl_parts) \ GroupedParts
    /\ pl_gi' = 1
    /\ pl_pc' = "connected"
    /\ pl_log' = pl_log \o <<"group_parts">>
    /\ UNCHANGED <<pl_parts, pl_children, pl_kind, pl_orient, pl_push, pl_sim, pl_filter, pl_fail, pl_part_attr,
                   pl_pin_attr, pl_net_attr, pl_tx, pl_tx0, pl_child_tx, pl_ci, pl_err>>
    /\ UNCHANGED othersPlace

\* What add_anchor_pull_pins(parts, nets) leaves on the parts of a group,
\* their pins on the net and the net.
AnchoredGroup(parts) ==
    /\ pl_pin_attr' = WithFields(pl_pin_attr, NetPins(parts), PinFields)
    /\ pl_net_attr' = NetFields

\* node.place_connected_parts(list(group), internal_nets, **options) returns.
PlaceConnected ==
    /\ pl_pc = "connected"
    /\ pl_gi <= Len(pl_groups)
    /\ LET parts == pl_groups[pl_gi] IN
         /\ ~BBoxKeyError(parts)
         /\ ~(pl_push /\ Cardinality(parts) >= 2)
         /\ pl_fail # "connected"
         /\ AnchoredGroup(parts)
         /\ pl_part_attr' = WithFields(pl_part_attr, parts,
                                       AnchorFields \cup EvolveFields(parts, FALSE))
         /\ pl_tx' \in PlacedTxs(pl_tx, parts)
    /\ pl_gi' = pl_gi + 1
    /\ pl_log' = pl_log \o <<"place_connected_parts">>
    /\ UNCHANGED <<pl_parts, pl_children, pl_kind, pl_orient, pl_push, pl_sim, pl_filter, pl_fail, pl_tx0,
                   pl_child_tx, pl_groups, pl_floating, pl_ci, pl_err, pl_pc>>
    /\ UNCHANGED othersPlace

\* add_placement_bboxes(parts) raises KeyError in place_connected_parts.
PlaceConnectedKeyError ==
    /\ pl_pc = "connected"
    /\ pl_gi <= Len(pl_groups)
    /\ BBoxKeyError(pl_groups[pl_gi])
    /\ pl_err' = "KeyError"
    /\ pl_pc' = "raised"
    /\ pl_log' = pl_log \o <<"place_connected_parts">>
    /\ UNCHANGED <<pl_parts, pl_children, pl_kind, pl_orient, pl_push, pl_sim, pl_filter, pl_fail, pl_part_attr,
                   pl_pin_attr, pl_net_attr, pl_tx, pl_tx0, pl_child_tx, pl_groups,
                   pl_floating, pl_gi, pl_ci>>
    /\ UNCHANGED othersPlace

\* push_and_pull calls total_part_force, which calls attractive_force: the
\* name is not defined and NameError is raised after random_placement.
PlaceConnectedNameError ==
    /\ pl_pc = "connected"
    /\ pl_gi <= Len(pl_groups)
    /\ LET parts == pl_groups[pl_gi] IN
         /\ ~BBoxKeyError(parts)
         /\ pl_push /\ Cardinality(parts) >= 2
         /\ AnchoredGroup(parts)
         /\ pl_part_attr' = WithFields(pl_part_attr, parts, AnchorFields)
         /\ pl_tx' \in PlacedTxs(pl_tx, parts)
    /\ pl_err' = "NameError"
    /\ pl_pc' = "raised"
    /\ pl_log' = pl_log \o <<"place_connected_parts">>
    /\ UNCHANGED <<pl_parts, pl_children, pl_kind, pl_orient, pl_push, pl_sim, pl_filter, pl_fail, pl_tx0,
                   pl_child_tx, pl_groups, pl_floating, pl_gi, pl_ci>>
    /\ UNCHANGED othersPlace

\* The placement of a connected group gives up with PlacementFailure.
PlaceConnectedGivesUp ==
    /\ pl_pc = "connected"
    /\ pl_gi <= Len(pl_groups)
    /\ LET parts == pl_groups[pl_gi] IN
         /\ ~BBoxKeyError(parts)
         /\ ~(pl_push /\ Cardinality(parts) >= 2)
         /\ pl_fail = "connected"
         /\ AnchoredGroup(parts)
         /\ pl_part_attr' = WithFields(pl_part_attr, parts,
                                       AnchorFields \cup EvolveFields(parts, FALSE))
         /\ pl_tx' \in PlacedTxs(pl_tx, parts)
    /\ pl_pc' = "except"
    /\ pl_log' = pl_log \o <<"place_connected_parts">>
    /\ UNCHANGED <<pl_parts, pl_children, pl_kind, pl_orient, pl_push, pl_sim, pl_filter, pl_fail, pl_tx0,
                   pl_child_tx, pl_groups, pl_floating, pl_gi, pl_ci, pl_err>>
    /\ UNCHANGED othersPlace

\* node.place_floating_parts(list(floating_parts), **options): nothing to place.
PlaceFloatingNone ==
    /\ pl_pc = "connected"
    /\ pl_gi > Len(pl_groups)
    /\ pl_floating = {}
    /\ pl_pc' = "blocks"
    /\ pl_log' = pl_log \o <<"place_floating_parts">>
    /\ UNCHANGED <<pl_parts, pl_children, pl_kind, pl_orient, pl_push, pl_sim, pl_filter, pl_fail, pl_part_attr,
                   pl_pin_attr, pl_net_attr, pl_tx, pl_tx0, pl_child_tx, pl_groups,
                   pl_floating, pl_gi, pl_ci, pl_err>>
    /\ UNCHANGED othersPlace

\* add_place_pt raises RuntimeError for the top-most pin of a floating part.
AnchorRuntimeError(parts) ==
    \E p \in parts : pl_orient[TopPin(p)] \notin Cardinal

\* push_and_pull of floating parts: scale_attractive_repulsive_forces divides
\* by the sum of the similarity forces, which is zero when no two parts are
\* similar.
ScaleZeroDivision(parts) == pl_push /\ Cardinality(parts) >= 2 /\ ~pl_sim

\* node.place_floating_parts(list(floating_parts), **options) returns.
PlaceFloating ==
    /\ pl_pc = "connected"
    /\ pl_gi > Len(pl_groups)
    /\ pl_floating # {}
    /\ ~BBoxKeyError(pl_floating)
    /\ ~AnchorRuntimeError(pl_floating)
    /\ ~ScaleZeroDivision(pl_floating)
    /\ pl_fail # "floating"
    /\ pl_part_attr' = WithFields(pl_part_attr, pl_floating,
                                  AnchorFields \cup EvolveFields(pl_floating, pl_push))
    /\ pl_pin_attr' = WithFields(pl_pin_attr, {TopPin(p) : p \in pl_floating}, PinFields)
    /\ pl_tx' \in PlacedTxs(pl_tx, pl_floating)
    /\ pl_pc' = "blocks"
    /\ pl_log' = pl_log \o <<"place_floating_parts">>
    /\ UNCHANGED <<pl_parts, pl_children, pl_kind, pl_orient, pl_push, pl_sim, pl_filter, pl_fail, pl_net_attr,
                   pl_tx0, pl_child_tx, pl_groups, pl_floating, pl_gi, pl_ci, pl_err>>
    /\ UNCHANGED othersPlace

\* add_placement_bboxes(parts) raises KeyError in place_floating_parts.
PlaceFloatingKeyError ==
    /\ pl_pc = "connected"
    /\ pl_gi > Len(pl_groups)
    /\ pl_floating # {}
    /\ BBoxKeyError(pl_floating)
    /\ pl_err' = "KeyError"
    /\ pl_pc' = "raised"
    /\ pl_log' = pl_log \o <<"place_floating_parts">>
    /\ UNCHANGED <<pl_parts, pl_children, pl_kind, pl_orient, pl_push, pl_sim, pl_filter, pl_fail, pl_part_attr,
                   pl_pin_attr, pl_net_attr, pl_tx, pl_tx0, pl_child_tx, pl_groups,
                   pl_floating, pl_gi, pl_ci>>
    /\ UNCHANGED othersPlace

\* add_anchor_pull_pins(parts, []) raises RuntimeError in place_floating_parts:
\* every part has its dicts, the parts that come before the failing one in
\* list(floating_parts) have their top-most pin set, and so has the failing one.
PlaceFloatingRuntimeError ==
    /\ pl_pc = "connected"
    /\ pl_gi > Len(pl_groups)
    /\ pl_floating # {}
    /\ ~BBoxKeyError(pl_floating)
    /\ \E p \in pl_floating :
         /\ pl_orient[TopPin(p)] \notin Cardinal
         /\ \E before \in SUBSET (pl_floating \ {p}) :
              /\ ~AnchorRuntimeError(before)
              /\ pl_pin_attr' = WithFields(pl_pin_attr,
                                           {TopPin(q) : q \in before \cup {p}}, PinFields)
    /\ pl_part_attr' = WithFields(pl_part_attr, pl_floating, AnchorFields)
    /\ pl_err' = "RuntimeError"
    /\ pl_pc' = "raised"
    /\ pl_log' = pl_log \o <<"place_floating_parts">>
    /\ UNCHANGED <<pl_parts, pl_children, pl_kind, pl_orient, pl_push, pl_sim, pl_filter, pl_fail, pl_net_attr,
                   pl_tx, pl_tx0, pl_child_tx, pl_groups, pl_floating, pl_gi, pl_ci>>
    /\ UNCHANGED othersPlace

\* scale_attractive_repulsive_forces raises ZeroDivisionError in
\* place_floating_parts: the parts are back at the transforms random_placement
\* gave them before the scaling, and original_tx has been removed.
PlaceFloatingZeroDivision ==
    /\ pl_pc = "connected"
    /\ pl_gi > Len(pl_groups)
    /\ pl_floating # {}
    /\ ~BBoxKeyError(pl_floating)
    /\ ~AnchorRuntimeError(pl_floating)
    /\ ScaleZeroDivision(pl_floating)
    /\ pl_part_attr' = WithFields(pl_part_attr, pl_floating, AnchorFields)
    /\ pl_pin_attr' = WithFields(pl_pin_attr, {TopPin(p) : p \in pl_floating}, PinFields)
    /\ pl_tx' \in PlacedTxs(pl_tx, pl_floating)
    /\ pl_err' = "ZeroDivisionError"
    /\ pl_pc' = "raised"
    /\ pl_log' = pl_log \o <<"place_floating_parts">>
    /\ UNCHANGED <<pl_parts, pl_children, pl_kind, pl_orient, pl_push, pl_sim, pl_filter, pl_fail,
                   pl_net_attr, pl_tx0, pl_child_tx, pl_groups, pl_floating, pl_gi, pl_ci>>
    /\ UNCHANGED othersPlace

\* The placement of the floating parts gives up with PlacementFailure.
PlaceFloatingGivesUp ==
    /\ pl_pc = "connected"
    /\ pl_gi > Len(pl_groups)
    /\ pl_floating # {}
    /\ ~BBoxKeyError(pl_floating)
    /\ ~AnchorRuntimeError(pl_floating)
    /\ ~ScaleZeroDivision(pl_floating)
    /\ pl_fail = "floating"
    /\ pl_part_attr' = WithFields(pl_part_attr, pl_floating,
                                  AnchorFields \cup EvolveFields(pl_floating, pl_push))
    /\ pl_pin_attr' = WithFields(pl_pin_attr, {TopPin(p) : p \in pl_floating}, PinFields)
    /\ pl_tx' \in PlacedTxs(pl_tx, pl_floating)
    /\ pl_pc' = "except"
    /\ pl_log' = pl_log \o <<"place_floating_parts">>
    /\ UNCHANGED <<pl_parts, pl_children, pl_kind, pl_orient, pl_push, pl_sim, pl_filter, pl_fail, pl_net_attr,
                   pl_tx0, pl_child_tx, pl_groups, pl_floating, pl_gi, pl_ci, pl_err>>
    /\ UNCHANGED othersPlace

\* node.place_blocks(connected_parts, floating_parts, node.children.values())
\* returns: child.tx = blk.tx and part.tx *= blk.tx.
PlaceBlocks ==
    /\ pl_pc = "blocks"
    /\ pl_fail # "blocks"
    /\ pl_tx' \in BlockedTxs(pl_tx, Range(pl_parts))
    /\ pl_child_tx' \in [DOMAIN pl_children -> {TxMove(pt.x, pt.y) : pt \in PlacedPts}]
    /\ pl_pc' = "cleanup"
    /\ pl_log' = pl_log \o <<"place_blocks">>
    /\ UNCHANGED <<pl_parts, pl_children, pl_kind, pl_orient, pl_push, pl_sim, pl_filter, pl_fail, pl_part_attr,
                   pl_pin_attr, pl_net_attr, pl_tx0, pl_groups, pl_floating, pl_gi, pl_ci,
                   pl_err>>
    /\ UNCHANGED othersPlace

\* The placement of the blocks gives up with PlacementFailure.
PlaceBlocksGivesUp ==
    /\ pl_pc = "blocks"
    /\ pl_fail = "blocks"
    /\ pl_pc' = "except"
    /\ pl_log' = pl_log \o <<"place_blocks">>
    /\ UNCHANGED <<pl_parts, pl_children, pl_kind, pl_orient, pl_push, pl_sim, pl_filter, pl_fail, pl_part_attr,
                   pl_pin_attr, pl_net_attr, pl_tx, pl_tx0, pl_child_tx, pl_groups,
                   pl_floating, pl_gi, pl_ci, pl_err>>
    /\ UNCHANGED othersPlace

\* rmv_attr(objs, fields)
rmv_attr(attr, fields) == [o \in DOMAIN attr |-> attr[o] \ fields]

\* A mutant of rmv_placement_stuff: the pins that carry a placement field
\* are removed with it.
RmvPinsWithFields ==
    /\ pl_pin_attr' = [k \in {j \in DOMAIN pl_pin_attr : pl_pin_attr[j] \cap PinFields = {}}
                          |-> pl_pin_attr[k]]
    /\ pl_part_attr' = rmv_attr(pl_part_attr, PartFields)
    /\ pl_net_attr' = pl_net_attr \ NetFields

rmv_placement_stuff ==
    /\ pl_pin_attr' = rmv_attr(pl_pin_attr, PinFields)
    /\ pl_part_attr' = rmv_attr(pl_part_attr, PartFields)
    /\ pl_net_attr' = pl_net_attr \ NetFields

\* node.rmv_placement_stuff(); node.show_added_attrs(); node.calc_bbox()
PlaceCleanup ==
    /\ pl_pc = "cleanup"
    /\ rmv_placement_stuff
    /\ pl_pc' = "done"
    /\ pl_log' = pl_log \o <<"rmv_placement_stuff", "calc_bbox">>
    /\ UNCHANGED <<pl_parts, pl_children, pl_kind, pl_orient, pl_push, pl_sim, pl_filter, pl_fail, pl_tx, pl_tx0,
                   pl_child_tx, pl_groups, pl_floating, pl_gi, pl_ci, pl_err>>
    /\ UNCHANGED othersPlace

\* except PlacementFailure: node.rmv_placement_stuff(); raise PlacementFailure
PlaceExcept ==
    /\ pl_pc = "except"
    /\ rmv_placement_stuff
    /\ pl_err' = "PlacementFailure"
    /\ pl_pc' = "raised"
    /\ pl_log' = pl_log \o <<"rmv_placement_stuff">>
    /\ UNCHANGED <<pl_parts, pl_children, pl_kind, pl_orient, pl_push, pl_sim, pl_filter, pl_fail, pl_tx, pl_tx0,
                   pl_child_tx, pl_groups, pl_floating, pl_gi, pl_ci>>
    /\ UNCHANGED othersPlace

NextPlace ==
    \/ PlaceChild
    \/ PlaceChildGivesUp
    \/ PlaceGroupParts
    \/ PlaceConnected
    \/ PlaceConnectedKeyError
    \/ PlaceConnectedNameError
    \/ PlaceConnectedGivesUp
    \/ PlaceFloatingNone
    \/ PlaceFloating
    \/ PlaceFloatingKeyError
    \/ PlaceFloatingRuntimeError
    \/ PlaceFloatingZeroDivision
    \/ PlaceFloatingGivesUp
    \/ PlaceBlocks
    \/ PlaceBlocksGivesUp
    \/ PlaceCleanup
    \/ PlaceExcept

SpecPlace == InitPlace /\ [][NextPlace]_vars

PlaceEnded == pl_pc \in {"done", "raised"}

\* C6: whichever way place ends, by returning or by raising, no part, pin
\* or net of the node carries a transient placement field.
TransientFieldsCleared ==
    PlaceEnded =>
        /\ \A p \in DOMAIN pl_part_attr : pl_part_attr[p] \cap PartFields = {}
        /\ \A k \in DOMAIN pl_pin_attr : pl_pin_attr[k] \cap PinFields = {}
        /\ pl_net_attr \cap NetFields = {}

DegenerateInputsNeverRaise ==
    (/\ NetParts = {}
     /\ \A k \in DOMAIN pl_orient : pl_orient[k] \in Cardinal
     /\ pl_fail = "none") => pl_pc # "raised"

\* C10: place never returns normally for a node that has a pin whose
\* orientation is not one of U, D, L, R.
BadOrientationRaises ==
    pl_pc = "done" => \A k \in DOMAIN pl_orient : pl_orient[k] \in Cardinal

(***************************************************************************)
(* Two runs of Placer.place, one after the other, on the same node with    *)
(* the same seed.  The node has no children and no internal nets, so all   *)
(* its parts are floating, and no option but the seed is given: a run is   *)
(* random.seed, random_placement, snap_to_grid and remove_overlaps for the *)
(* parts, and the same again for the one block that holds them.  Both runs *)
(* start from the same part transforms.                                    *)
(*                                                                         *)
(* The random generator is a deterministic stream fixed by the seed; it is *)
(* modelled by a full-period congruential generator with RandMod values,   *)
(* and random.random() is its state divided by RandMod.  What the program  *)
(* does not fix is the order in which a set of parts is iterated:          *)
(* list(floating_parts) and set(parts) - {part} may come in any order, and *)
(* each run draws its own.                                                 *)
(***************************************************************************)
\* Largest number of parts in the node.
NumDet == 3
\* Largest seed.
MaxSeed == 3
\* Number of values of the random generator.
RandMod == 16

\* BLK_EXT_PAD of the backend tool.
BLK_EXT_PAD == 2 * GRID

\* random.seed(seed)
SeedState(seed) == seed % RandMod

NextRand(s) == (5 * s + 3) % RandMod

\* The state of the generator after k calls of random.random(), which is
\* also RandMod times the value of the k-th call.
RECURSIVE Draw(_, _)
Draw(s, k) == IF k = 0 THEN s ELSE Draw(NextRand(s), k - 1)

\* random.random() * side, in model units.
RandCoord(u, side) == (u * side) \div RandMod

\* random.random() - 0.5, as one of RandOffsets.
RandOffset(u) == IF 2 * u < RandMod THEN -1 ELSE 1

Perms(S) == {f \in [1..Cardinality(S) -> S] : \A i, j \in DOMAIN f : i # j => f[i] # f[j]}

IndexOf(seq, x) == CHOOSE i \in DOMAIN seq : seq[i] = x

BBoxArea(bb) == (bb.maxx - bb.minx) * (bb.maxy - bb.miny)

\* part.lbl_bbox, in the part's own coordinates.
lbl_bbox(p) == BBox(0, 0, GRID, GRID)

\* define_placement_bbox: the side of the square, 3 * sqrt(area).
PlacementSide(area) == ISqrt(9 * area)

\* Tx.move_to
move_to(t, pt) == [t EXCEPT !.dx = pt.x, !.dy = pt.y]

\* random_placement(parts) for the parts in the order of the list, with the
\* generator in state s.
random_placement(order, tx, s) ==
    LET RECURSIVE Area(_)
        Area(i) == IF i = 0 THEN 0 ELSE BBoxArea(place_bbox(order[i])) + Area(i - 1)
        side == PlacementSide(Area(Len(order)))
    IN  [p \in DOMAIN tx |->
            LET i == IndexOf(order, p)
            IN  move_to(tx[p], Pt(RandCoord(Draw(s, 2 * i - 1), side),
                                  RandCoord(Draw(s, 2 * i), side)))]

\* overlap_force(part, parts) with the generator in state s, when the set
\* set(parts) - {part} is iterated in the order others: the force and the
\* state the generator is left in.  Each rand_offset() draws two values;
\* mv_left and mv_right use the first, mv_up and mv_down the second.
RECURSIVE SeededOverlapForce(_, _, _, _)
SeededOverlapForce(p, others, tx, s) ==
    IF others = <<>> THEN [force |-> Pt(0, 0), rng |-> s]
    ELSE LET pb == BBoxTx(place_bbox(p), tx[p])
             ob == BBoxTx(place_bbox(Head(others)), tx[Head(others)])
         IN  IF Intersects(pb, ob)
             THEN LET r == <<RandOffset(Draw(s, 1)), RandOffset(Draw(s, 3)),
                             RandOffset(Draw(s, 6)), RandOffset(Draw(s, 8))>>
                      rest == SeededOverlapForce(p, Tail(others), tx, Draw(s, 8))
                  IN  [force |-> PtAdd(PairMove(pb, ob, r), rest.force), rng |-> rest.rng]
             ELSE SeededOverlapForce(p, Tail(others), tx, s)

\* The loop "for part in mobile_parts" of remove_overlaps over the list
\* order: part.mv of every part and the state the generator is left in.
\* inner[p] is the order of set(parts) - {p}.
RECURSIVE SeededShoves(_, _, _, _)
SeededShoves(order, inner, tx, s) ==
    IF order = <<>> THEN [mv |-> <<>>, rng |-> s]
    ELSE LET p == Head(order)
             f == SeededOverlapForce(p, inner[p], tx, s)
             rest == SeededShoves(Tail(order), inner, tx, f.rng)
         IN  [mv |-> (p :> Pt(sgn(f.force.x) * GRID, sgn(f.force.y) * GRID)) @@ rest.mv,
              rng |-> rest.rng]

\* The orders in which set(parts) - {part} may be iterated, for every part.
InnerOrders(parts) ==
    {f \in [parts -> UNION {Perms(parts \ {p}) : p \in parts}] :
        \A p \in parts : f[p] \in Perms(parts \ {p})}

\* The bounding box of a block of parts in place_blocks: the boxes
\* part.lbl_bbox * part.tx, resized by BLK_EXT_PAD.
BlockBBox(parts, tx) ==
    LET boxes == {BBoxTx(lbl_bbox(p), tx[p]) : p \in parts}
    IN  BBox(Min({b.minx : b \in boxes}) - BLK_EXT_PAD,
             Min({b.miny : b \in boxes}) - BLK_EXT_PAD,
             Max({b.maxx : b \in boxes}) + BLK_EXT_PAD,
             Max({b.maxy : b \in boxes}) + BLK_EXT_PAD)

\* snap_to_grid for a block with snap point snap_pt.
SnapBlock(snap_pt, t) ==
    LET pt == PtTx(snap_pt, t)
        mv == PtSub(PtSnap(pt, GRID), pt)
    IN  TxMul(t, TxMove(mv.x, mv.y))

\* blk.tx of the block of floating parts: random_placement of the one
\* block, then snap_to_grid with the snap point of the first part of the
\* set that is iterated.
BlockTx(order, tx, s) ==
    LET side == PlacementSide(BBoxArea(BlockBBox(Range(order), tx)))
        t == move_to(TxIdent, Pt(RandCoord(Draw(s, 1), side), RandCoord(Draw(s, 2), side)))
    IN  SnapBlock(get_snap_pt(order[1]), t)

InitDet ==
    /\ IdleButDet
    /\ \E n \in 2..NumDet :
         /\ det_parts = 1..n
         /\ det_tx = [p \in 1..n |-> TxIdent]
         /\ det_order = [i \in 1..n |-> i]
    /\ det_seed \in 0..MaxSeed
    /\ det_rng \in {0, 5}
    /\ det_result = <<>>
    /\ det_pc = "seed"

\* random.seed(options.get("seed")); group_parts finds every part floating,
\* and list(floating_parts) comes in some order.
DetSeed ==
    /\ det_pc = "seed"
    /\ det_rng' = SeedState(det_seed)
    /\ det_order' \in Perms(det_parts)
    /\ det_tx' = [p \in det_parts |-> TxIdent]
    /\ det_pc' = "random_placement"
    /\ UNCHANGED <<det_parts, det_seed, det_result>>
    /\ UNCHANGED othersDet

\* place_floating_parts: random_placement(parts)
DetRandomPlacement ==
    /\ det_pc = "random_placement"
    /\ det_tx' = random_placement(det_order, det_tx, det_rng)
    /\ det_rng' = Draw(det_rng, 2 * Len(det_order))
    /\ det_pc' = "evolve"
    /\ UNCHANGED <<det_parts, det_seed, det_order, det_result>>
    /\ UNCHANGED othersDet

\* place_floating_parts: evolve_placement(parts, [], force_func), which
\* snaps every part to the grid and runs remove_overlaps.
DetEvolve ==
    /\ det_pc = "evolve"
    /\ LET snapped == [p \in det_parts |-> snap_to_grid(p, det_tx[p])]
       IN  \E inner \in InnerOrders(det_parts) :
              LET sh == SeededShoves(det_order, inner, snapped, det_rng)
                  drift_mv == Mean(sh.mv, det_parts)
              IN  /\ det_tx' = [p \in det_parts |->
                                   LET m == ShoveMove(sh.mv[p], drift_mv)
                                   IN  TxMul(snapped[p], TxMove(m.x, m.y))]
                  /\ det_rng' = sh.rng
    /\ det_pc' = "place_blocks"
    /\ UNCHANGED <<det_parts, det_seed, det_order, det_result>>
    /\ UNCHANGED othersDet

\* place_blocks with the one block of floating parts, rmv_placement_stuff
\* and the return of place: part.tx *= blk.tx.
DetPlaceBlocks ==
    /\ det_pc = "place_blocks"
    /\ LET blk_tx == BlockTx(det_order, det_tx, det_rng)
       IN  /\ det_tx' = [p \in det_parts |-> TxMul(det_tx[p], blk_tx)]
           /\ det_result' = Append(det_result, det_tx')
    /\ det_rng' = Draw(det_rng, 2)
    /\ det_pc' = "returned"
    /\ UNCHANGED <<det_parts, det_seed, det_order>>
    /\ UNCHANGED othersDet

\* place is called again on the same input with the same seed.
DetSecondRun ==
    /\ det_pc = "returned"
    /\ Len(det_result) = 1
    /\ det_pc' = "seed"
    /\ UNCHANGED <<det_parts, det_seed, det_rng, det_order, det_tx, det_result>>
    /\ UNCHANGED othersDet

NextDet ==
    \/ DetSeed
    \/ DetRandomPlacement
    \/ DetEvolve
    \/ DetPlaceBlocks
    \/ DetSecondRun

SpecDet == InitDet /\ [][NextDet]_vars

\* C9: two runs of place on the same input with the same seed give every
\* part the same final transform.
SameSeedSameTransforms ==
    Len(det_result) = 2 => det_result[1] = det_result[2]

(***************************************************************************)
(* Further properties of Placer.place, checked under SpecPlace.            *)
(***************************************************************************)
\* C12: no step of place creates or destroys a part, a child, a pin or a
\* net membership: the part list, the keys of the child map, the pins of
\* every part and the pins on the internal net stay as they are, also when a
\* filter has dropped the net from grouping.
PlaceKeepsObjects ==
    [][/\ pl_parts' = pl_parts
       /\ DOMAIN pl_children' = DOMAIN pl_children
       /\ pl_kind' = pl_kind
       /\ DOMAIN pl_part_attr' = DOMAIN pl_part_attr
       /\ DOMAIN pl_pin_attr' = DOMAIN pl_pin_attr]_vars

\* place has returned for a node with two children and two parts on an
\* internal net that a filter dropped, and the parts have been moved.
PlaceKeepsObjectsWitness ==
    /\ pl_pc = "done"
    /\ pl_filter
    /\ Cardinality(NetParts) = 2
    /\ Len(pl_children) = 2
    /\ pl_tx # pl_tx0
    /\ DOMAIN pl_pin_attr = 1..4

\* Every call of a comes before every call of b.
Before(a, b) ==
    \A i, j \in DOMAIN pl_log : (pl_log[i] = a /\ pl_log[j] = b) => i < j

\* The number of calls of a so far.
Calls(a) == Cardinality({i \in DOMAIN pl_log : pl_log[i] = a})

\* C13: the place call of every child has returned before group_parts is
\* called; every connected group and the floating group have been placed
\* before place_blocks is called; calc_bbox is called only after place_blocks
\* and rmv_placement_stuff.
PlaceCallOrder ==
    /\ Calls("group_parts") > 0 =>
          /\ Calls("child.place") = Len(pl_children)
          /\ \A c \in DOMAIN pl_children : pl_children[c] = "placed"
          /\ Before("child.place", "group_parts")
    /\ Before("group_parts", "place_connected_parts")
    /\ Before("group_parts", "place_floating_parts")
    /\ Calls("place_blocks") > 0 =>
          /\ Calls("place_connected_parts") = Len(pl_groups)
          /\ Calls("place_floating_parts") = 1
          /\ Before("place_connected_parts", "place_blocks")
          /\ Before("place_floating_parts", "place_blocks")
    /\ Calls("calc_bbox") > 0 =>
          /\ Calls("place_blocks") = 1
          /\ Calls("rmv_placement_stuff") = 1
          /\ Before("place_blocks", "calc_bbox")
          /\ Before("rmv_placement_stuff", "calc_bbox")

\* place has returned for a node with two children, a connected group and
\* a floating part.
PlaceCallOrderWitness ==
    /\ pl_pc = "done"
    /\ Len(pl_children) = 2
    /\ Len(pl_groups) = 1
    /\ pl_floating # {}
    /\ Calls("calc_bbox") = 1

(***************************************************************************)
(* group_parts with remove_high_fanout on a node of one hub part and       *)
(* NumSpokes other parts, all on one hub net, and up to MaxOther further   *)
(* internal nets of two or three parts.                                    *)
(***************************************************************************)
\* The number of parts the hub net joins to the hub part.
NumSpokes == 10
\* Largest number of internal nets besides the hub net.
MaxOther == 5

\* The hub is part 1, the other parts are 2..NumSpokes + 1.
HubNet == 1..(NumSpokes + 1)

\* The further internal nets the node may have.
OtherNets == {{1, 2}, {3, 4, 5}}

\* The list nets with the net x put in at position k.
InsertAt(nets, k, x) ==
    [i \in 1..(Len(nets) + 1) |-> IF i < k THEN nets[i] ELSE IF i = k THEN x ELSE nets[i - 1]]

InitFanout ==
    /\ IdleButGroup
    /\ node_parts = HubNet
    /\ \E others \in SeqsUpTo(OtherNets, MaxOther) :
          \E k \in 1..(Len(others) + 1) : internal_nets = InsertAt(others, k, HubNet)
    /\ net_len = [k \in DOMAIN internal_nets |-> Cardinality(internal_nets[k])]
    /\ remove_high_fanout = TRUE
    /\ connected_parts = <<>>
    /\ floating_parts = {}
    /\ ret_nets = <<>>
    /\ gi = 1
    /\ gpc = "start"

NextFanout ==
    \/ GroupFilter
    \/ GroupSeed
    \/ GroupJoin
    \/ GroupFinish

SpecFanout == InitFanout /\ [][NextFanout]_vars

\* C14: with remove_high_fanout the hub net is not in the net list
\* group_parts returns, whatever other internal nets the node has, and every
\* part that is on no other internal net is in the floating set.
HubNetExcluded ==
    gpc = "done" =>
        /\ HubNet \notin Range(ret_nets)
        /\ \A p \in HubNet :
              (\A k \in DOMAIN internal_nets :
                  internal_nets[k] # HubNet => p \notin internal_nets[k])
              => p \in floating_parts

(***************************************************************************)
(* C15: when remove_overlaps returns for two or more parts, no two of them *)
(* have intersecting placement bounding boxes.                             *)
(***************************************************************************)
RemoveOverlapsClears ==
    (ev_pc = "slip_and_slide" /\ Len(ev_parts) >= 2) => NoOverlaps(ev_parts, ev_tx)

\* C16: in one top-level place call random.seed is called exactly once; the
\* place calls of the children do not seed the generator again.
SeededOnce == Calls("random.seed") = 1

(***************************************************************************)
(* evolve_placement with its options: the passes that an option switches   *)
(* on move parts.  What such a pass computes is modelled elsewhere (the    *)
(* force loop in SpecPush); here a pass that is on displaces one part by   *)
(* one of PassMoves.                                                       *)
(***************************************************************************)
Options == {"use_push_pull", "allow_jumps", "align_parts", "slip_and_slide"}

PassMoves == {Pt(GRID, 0), Pt(3, -2)}

PassStartX == {0, 5}
PassStartY == {0, 7}

\* "part.tx *= mv_tx" for one part of the list.
Displaced(tx) ==
    {[tx EXCEPT ![p] = TxMul(tx[p], TxMove(m.x, m.y))] :
        p \in DOMAIN tx, m \in PassMoves}

\* push_and_pull past its two early returns: the force loop moves parts.
PushAndPullMoves ==
    /\ ev_pc = "push_and_pull"
    /\ OptionOn("use_push_pull")
    /\ Len(ev_parts) > 1
    /\ ev_tx' \in Displaced(ev_tx)
    /\ ev_pc' = "jump_parts"
    /\ UNCHANGED <<ev_parts, ev_mv, ev_opts>>
    /\ UNCHANGED othersEvolve

\* jump_parts past its early return: "part.tx *= mv_tx".
JumpPartsMoves ==
    /\ ev_pc = "jump_parts"
    /\ OptionOn("allow_jumps")
    /\ ev_tx' \in Displaced(ev_tx)
    /\ ev_pc' = "align_parts"
    /\ UNCHANGED <<ev_parts, ev_mv, ev_opts>>
    /\ UNCHANGED othersEvolve

\* align_parts past its early return, for a part with align moves:
\* "part.tx *= tx".
AlignPartsMoves ==
    /\ ev_pc = "align_parts"
    /\ OptionOn("align_parts")
    /\ ev_tx' \in Displaced(ev_tx)
    /\ ev_pc' = "snap"
    /\ UNCHANGED <<ev_parts, ev_mv, ev_opts>>
    /\ UNCHANGED othersEvolve

\* slip_and_slide past its three early returns: "part.tx = best_tx".
SlipAndSlideMoves ==
    /\ ev_pc = "slip_and_slide"
    /\ OptionOn("slip_and_slide")
    /\ Len(ev_parts) > 1
    /\ ev_tx' \in Displaced(ev_tx)
    /\ ev_pc' = "done"
    /\ UNCHANGED <<ev_parts, ev_mv, ev_opts>>
    /\ UNCHANGED othersEvolve

InitPasses ==
    /\ IdleButEvolve
    /\ \E n \in 1..2 :
          /\ ev_parts = [k \in 1..n |-> k]
          /\ ev_tx \in [1..n -> {TxMove(x, y) : x \in PassStartX, y \in PassStartY}]
          /\ ev_mv = [k \in 1..n |-> Pt(0, 0)]
    /\ ev_pc = "push_and_pull"
    /\ ev_opts \in SUBSET Options

NextPasses ==
    \/ PushAndPullSkip
    \/ PushAndPullMoves
    \/ JumpPartsSkip
    \/ JumpPartsMoves
    \/ AlignPartsSkip
    \/ AlignPartsMoves
    \/ SnapParts
    \/ RemoveOverlapsSkip
    \/ RemoveOverlaps
    \/ SlipAndSlideSkip
    \/ SlipAndSlideMoves

SpecPasses == InitPasses /\ [][NextPasses]_vars

\* The pass evolve_placement calls after the pass at pc.
PassAfter(pc) ==
    CASE pc = "push_and_pull" -> "jump_parts"
      [] pc = "jump_parts" -> "align_parts"
      [] pc = "align_parts" -> "snap"
      [] pc = "snap" -> "remove_overlaps"
      [] pc = "remove_overlaps" -> "slip_and_slide"
      [] pc = "slip_and_slide" -> "done"

\* The option that switches on the pass at pc.
PassOption(pc) ==
    CASE pc = "push_and_pull" -> "use_push_pull"
      [] pc = "jump_parts" -> "allow_jumps"
      [] pc = "align_parts" -> "align_parts"
      [] pc = "slip_and_slide" -> "slip_and_slide"

AlphaSchedule ==
    [][/\ pp_alpha' \in {pp_alpha, pp_alpha + 1}
       /\ pp_alpha' \in 0..N
       /\ pp_alpha' # pp_alpha =>
              /\ pp_pc = "loop"
              /\ pp_tx' = MovedTx(pp_tx, pp_mv')
              /\ \A i \in DOMAIN pp_parts :
                    BelowFraction(MvAvg(pp_mv_avg[i], pp_mv_avg_coef, pp_mv'[i]),
                                  pp_parts[i], 2)
       /\ (pp_pc = "loop" /\ pp_pc' = "done") =>
              /\ pp_alpha = N
              /\ pp_tx' = MovedTx(pp_tx, pp_mv')
              /\ \A i \in DOMAIN pp_parts :
                    BelowFraction(pp_mv_avg'[i], pp_parts[i], 3)]_vars

\* push_and_pull has run through the whole schedule for two or more parts.
AlphaScheduleWitness ==
    /\ pp_pc = "done"
    /\ pp_use
    /\ Len(pp_parts) >= 2
    /\ pp_alpha = N

\* The running cumulative delta cost after the first i moves of the pass.
CumDelta(i) ==
    cost_seq(or_moved, [p \in DOMAIN or_best |-> or_best[p].delta_cost])[i + 1]

\* The first index at which the cumulative delta cost is lowest.
FirstMinimum ==
    CHOOSE k \in 0..Len(or_moved) :
        /\ \A j \in 0..Len(or_moved) : CumDelta(k) <= CumDelta(j)
        /\ \A j \in 0..(k - 1) : CumDelta(j) > CumDelta(k)

(***************************************************************************)
(* C19: the step that ends a pass leaves the first k moved parts, k the    *)
(* first index of the lowest cumulative delta cost, with the orientation   *)
(* they were moved to and every part moved later with its transform of the *)
(* start of the pass; the search ends with that step exactly when k = 0 or *)
(* the pass is the tenth.                                                  *)
(***************************************************************************)
RollbackToFirstMinimum ==
    [][(or_pc = "pass" /\ or_unmoved = <<>>) =>
          /\ \A i \in DOMAIN or_moved :
                or_tx'[or_moved[i]] =
                    IF i <= FirstMinimum
                    THEN or_best[or_moved[i]].delta_cost_tx
                    ELSE or_pass_tx[or_moved[i]]
          /\ \A p \in DOMAIN or_tx :
                (\A i \in DOMAIN or_moved : or_moved[i] # p) => or_tx'[p] = or_tx[p]
          /\ (or_pc' = "done") <=> (FirstMinimum = 0 \/ or_iter = 9)]_vars

\* A pass has ended that kept one move and undid a later one.
RollbackToFirstMinimumWitness ==
    /\ or_pc = "pass"
    /\ or_iter >= 1
    /\ or_moved = <<>>
    /\ \E p, q \in DOMAIN or_tx :
          /\ ~or_locked[p] /\ ~or_locked[q]
          /\ or_tx[p] # or_tx0[p]
          /\ or_best[q].delta_cost_tx # or_tx[q]
          /\ or_best[q].prev_tx = or_tx[q]

(***************************************************************************)
(* C20: the delta cost find_best_orientation records for a part is never   *)
(* above zero, the current orientation being one of those compared.        *)
(***************************************************************************)
BestDeltaNeverPositive ==
    \A p \in DOMAIN or_best : or_best[p].delta_cost <= 0

(***************************************************************************)
(* C21: no step of adjust_orientations changes the transform of a part     *)
(* whose orientation is locked; with every part locked no transform        *)
(* changes.                                                                *)
(***************************************************************************)
LockedPartsKeepTransform ==
    [][\A p \in DOMAIN or_locked : or_locked[p] => or_tx'[p] = or_tx[p]]_vars

\* The search has ended with a locked part in the list and another part
\* turned.
LockedPartsKeepTransformWitness ==
    /\ or_pc = "done"
    /\ \E p, q \in DOMAIN or_locked :
          /\ or_locked[p]
          /\ ~or_locked[q]
          /\ or_tx[q] # or_tx0[q]
          /\ or_tx[p] = or_tx0[p]

(***************************************************************************)
(* C22: adjust_orientations returns True when the orientation of at least  *)
(* one part after the call differs from the one before it, and False when  *)
(* none does.                                                              *)
(***************************************************************************)
ReturnsTrueIffChanged ==
    or_pc = "done" =>
        IF \E p \in DOMAIN or_tx : or_tx[p] # or_tx0[p]
        THEN or_ret = "True"
        ELSE or_ret = "False"

(***************************************************************************)
(* slip_and_slide, past its early returns and the scaling of the forces.   *)
(***************************************************************************)
\* "iterations = 20"
SlipIterations == 20

\* "for dx, dy in ((-GRID, 0), (GRID, 0), (0, -GRID), (0, -GRID))"
SlipSteps == <<Pt(-GRID, 0), Pt(GRID, 0), Pt(0, -GRID), Pt(0, -GRID)>>

\* Where the grid snap and remove_overlaps may have left the parts.
SlipStartX == {-24, 0, 24}
SlipStartY == {0, 24}

\* force_func(part, parts, alpha=0, scale=scale): the attractive force, here
\* the pull of the part's origin towards the origins of the other parts.
SlipForce(p, parts, tx) ==
    LET others == Range(parts) \ {p}
    IN  Pt(SumOver([q \in others |-> tx[q].dx - tx[p].dx], others),
           SumOver([q \in others |-> tx[q].dy - tx[p].dy], others))

\* The square of force.magnitude: forces are compared by magnitude.
MagnitudeSq(f) == f.x * f.x + f.y * f.y

\* A mutant of ZeroRepulsion: the test always passes.
ZeroRepulsionAlways(p, parts, tx) == TRUE

\* "repulsive_force(part, parts).magnitude == 0".  A sum of overlap moves
\* that is zero only when two of the random offsets cancel exactly is not
\* counted as zero: the offsets are independent draws of random.random().
ZeroRepulsion(p, parts, tx) == overlap_force(p, parts, tx) = {Pt(0, 0)}

\* "part.tx = part.tx * mv_tx" for the steps up to step i: the transform
\* at which candidate i is measured.
RECURSIVE SlipCandidate(_, _)
SlipCandidate(t, i) ==
    IF i = 0 THEN t
    ELSE TxMul(SlipCandidate(t, i - 1), TxMove(SlipSteps[i].x, SlipSteps[i].y))

\* The loop over the steps from step i on: a candidate becomes best_tx when
\* its force is smaller than the smallest so far and it is free of
\* repulsion.
RECURSIVE SlipBest(_, _, _, _, _, _)
SlipBest(i, p, parts, tx, smallest_force, best) ==
    IF i > Len(SlipSteps) THEN best
    ELSE LET c == SlipCandidate(tx[p], i)
             at == [tx EXCEPT ![p] = c]
             force == MagnitudeSq(SlipForce(p, parts, at))
         IN  IF force < smallest_force /\ ZeroRepulsion(p, parts, at)
             THEN SlipBest(i + 1, p, parts, tx, force, [tx |-> c, moved |-> TRUE])
             ELSE SlipBest(i + 1, p, parts, tx, smallest_force, best)

InitSlip ==
    /\ IdleButSlip
    /\ \E n \in 2..3 :
          /\ sl_parts = [k \in 1..n |-> k]
          /\ sl_tx \in [1..n -> {TxMove(x, y) : x \in SlipStartX, y \in SlipStartY}]
    /\ sl_order = <<>>
    /\ sl_iter = SlipIterations
    /\ sl_moved = TRUE
    /\ sl_turn = <<>>
    /\ sl_pc = "sweep"

\* "while moved and iterations:" holds: "moved = False;
\* random.shuffle(mobile_parts)".
SlipSweep ==
    /\ sl_pc = "sweep"
    /\ sl_moved /\ sl_iter # 0
    /\ sl_moved' = FALSE
    /\ sl_order' \in Perms(Range(sl_parts))
    /\ sl_pc' = "turns"
    /\ UNCHANGED <<sl_parts, sl_tx, sl_iter, sl_turn>>
    /\ UNCHANGED othersSlip

\* The turn of one part: the candidates are measured, "part.tx = best_tx".
SlipTurn ==
    /\ sl_pc = "turns"
    /\ sl_order # <<>>
    /\ LET p == Head(sl_order)
           best == SlipBest(1, p, sl_parts, sl_tx,
                            MagnitudeSq(SlipForce(p, sl_parts, sl_tx)),
                            [tx |-> sl_tx[p], moved |-> FALSE])
       IN  /\ sl_tx' = [sl_tx EXCEPT ![p] = best.tx]
           /\ sl_moved' = (sl_moved \/ best.moved)
           /\ sl_turn' = <<[part |-> p, start |-> sl_tx[p],
                            tried |-> {SlipCandidate(sl_tx[p], i) : i \in DOMAIN SlipSteps}]>>
    /\ sl_order' = Tail(sl_order)
    /\ UNCHANGED <<sl_parts, sl_iter, sl_pc>>
    /\ UNCHANGED othersSlip

\* The end of the loop over mobile_parts: "iterations -= 1".
SlipSweepEnd ==
    /\ sl_pc = "turns"
    /\ sl_order = <<>>
    /\ sl_iter' = sl_iter - 1
    /\ sl_pc' = "sweep"
    /\ UNCHANGED <<sl_parts, sl_tx, sl_order, sl_moved, sl_turn>>
    /\ UNCHANGED othersSlip

\* "while moved and iterations:" fails: slip_and_slide returns.
SlipReturn ==
    /\ sl_pc = "sweep"
    /\ ~(sl_moved /\ sl_iter # 0)
    /\ sl_pc' = "done"
    /\ UNCHANGED <<sl_parts, sl_tx, sl_order, sl_iter, sl_moved, sl_turn>>
    /\ UNCHANGED othersSlip

NextSlip ==
    \/ SlipSweep
    \/ SlipTurn
    \/ SlipSweepEnd
    \/ SlipReturn

SpecSlip == InitSlip /\ [][NextSlip]_vars

\* The four positions one grid step to the left, right, below and above t.
GridNeighbours(t) ==
    {TxMul(t, TxMove(-GRID, 0)), TxMul(t, TxMove(GRID, 0)),
     TxMul(t, TxMove(0, -GRID)), TxMul(t, TxMove(0, GRID))}

(***************************************************************************)
(* C23: the candidates tried in the turn of a part are the four positions  *)
(* one grid step to the left, right, below and above the position the part *)
(* had when its turn began.                                                *)
(***************************************************************************)
SlipTriesFourNeighbours ==
    \A i \in DOMAIN sl_turn : sl_turn[i].tried = GridNeighbours(sl_turn[i].start)

(***************************************************************************)
(* C24: a step of slip_and_slide that changes the transform of a part      *)
(* moves it by whole grid steps to a position where its attractive force   *)
(* is strictly smaller and its placement box meets no other part's; no     *)
(* step makes two parts overlap that did not; a sweep is only begun while  *)
(* sweeps are left of the 20.                                              *)
(***************************************************************************)
SlipKeepsImprovements ==
    [][/\ \A p \in DOMAIN sl_tx :
             sl_tx'[p] # sl_tx[p] =>
                /\ (sl_tx'[p].dx - sl_tx[p].dx) % GRID = 0
                /\ (sl_tx'[p].dy - sl_tx[p].dy) % GRID = 0
                /\ [sl_tx'[p] EXCEPT !.dx = 0, !.dy = 0] = [sl_tx[p] EXCEPT !.dx = 0, !.dy = 0]
                /\ MagnitudeSq(SlipForce(p, sl_parts, sl_tx'))
                      < MagnitudeSq(SlipForce(p, sl_parts, sl_tx))
                /\ \A q \in DOMAIN sl_tx \ {p} :
                      ~Intersects(BBoxTx(place_bbox(p), sl_tx'[p]),
                                  BBoxTx(place_bbox(q), sl_tx'[q]))
       /\ \A p, q \in DOMAIN sl_tx :
             (p # q /\ ~Intersects(BBoxTx(place_bbox(p), sl_tx[p]),
                                   BBoxTx(place_bbox(q), sl_tx[q])))
             => ~Intersects(BBoxTx(place_bbox(p), sl_tx'[p]),
                            BBoxTx(place_bbox(q), sl_tx'[q]))
       /\ sl_iter' \in 0..20
       /\ sl_pc' = "turns" => sl_iter' >= 1]_vars

\* In a sweep after the first, the turn of a part has just moved it.
SlipKeepsImprovementsWitness ==
    /\ sl_pc = "turns"
    /\ sl_iter < 20
    /\ \E i \in DOMAIN sl_turn : sl_tx[sl_turn[i].part] # sl_turn[i].start

(***************************************************************************)
(* align_parts, with the align_parts option on and a list of Parts.        *)
(***************************************************************************)
\* The translations the parts may have when align_parts is called.
AlignStarts == {Pt(0, 0), Pt(8, 0), Pt(0, 6), Pt(5, -3)}

\* The elements of a set of numbers as a list, in ascending order.
RECURSIVE SortedSeq(_)
SortedSeq(S) ==
    IF S = {} THEN <<>> ELSE <<Min(S)>> \o SortedSeq(S \ {Min(S)})

\* sorted(parts[:], key=lambda prt: -len(prt.pins)): the sort is stable.
SortByPins(parts, npins) ==
    CHOOSE s \in Perms(Range(parts)) :
        \A i, j \in DOMAIN s :
            i < j => \/ npins[s[i]] > npins[s[j]]
                     \/ /\ npins[s[i]] = npins[s[j]]
                        /\ IndexOf(parts, s[i]) < IndexOf(parts, s[j])

\* The align moves of part p for one net: for every pull pin, for every
\* anchor pin, "pull_pt - anchor_pt".
NetAlignMoves(p, net, tx) ==
    LET pu == SortedSeq(pull_pins(p, net))
        an == SortedSeq(anchor_pins(p, net))
        pt(k) == PtTx(PinPlacePt(k), tx[PinPart(k)])
    IN  [k \in 1..(Len(pu) * Len(an)) |->
            PtSub(pt(pu[((k - 1) \div Len(an)) + 1]), pt(an[((k - 1) % Len(an)) + 1]))]

\* align_moves of part p: the moves of its nets, in the order of the nets.
RECURSIVE AlignMoves(_, _, _)
AlignMoves(p, nets, tx) ==
    IF nets = <<>> THEN <<>>
    ELSE NetAlignMoves(p, Head(nets), tx) \o AlignMoves(p, Tail(nets), tx)

\* Counter(align_moves).most_common(1)[0][0]: the first of the moves that
\* occur most often.
MostCommon(moves) ==
    LET count(m) == Cardinality({i \in DOMAIN moves : moves[i] = m})
    IN  moves[Min({i \in DOMAIN moves :
                      \A j \in DOMAIN moves : count(moves[i]) >= count(moves[j])})]

\* A mutant of SingleAxis: the component of smaller magnitude is set to zero.
SingleAxisSmallerZeroed(best_move) ==
    IF Abs(best_move.x) > Abs(best_move.y) THEN Pt(best_move.x, 0) ELSE Pt(0, best_move.y)

\* "if abs(best_move.x) > abs(best_move.y): best_move.x = 0
\*  else: best_move.y = 0"
SingleAxis(best_move) ==
    IF Abs(best_move.x) > Abs(best_move.y) THEN Pt(0, best_move.y) ELSE Pt(best_move.x, 0)

InitAlign ==
    /\ IdleButAlign
    /\ \E n \in 2..3 :
          /\ al_parts = [k \in 1..n |-> k]
          /\ al_npins \in [1..n -> {2, 3}]
          /\ al_nets \in OrientNetLists(n)
          /\ al_tx \in {t \in [1..n -> {TxMove(s.x, s.y) : s \in AlignStarts}] :
                         t[1] = TxMove(0, 0)}
    /\ al_order = <<>>
    /\ al_last = <<>>
    /\ al_pc = "start"

\* "mobile_parts = sorted(parts[:], key=lambda prt: -len(prt.pins))"
AlignSort ==
    /\ al_pc = "start"
    /\ al_order' = SortByPins(al_parts, al_npins)
    /\ al_pc' = "loop"
    /\ UNCHANGED <<al_parts, al_npins, al_nets, al_tx, al_last>>
    /\ UNCHANGED othersAlign

\* The turn of a part without align moves: "continue".
AlignSkipPart ==
    /\ al_pc = "loop"
    /\ al_order # <<>>
    /\ AlignMoves(Head(al_order), al_nets, al_tx) = <<>>
    /\ al_order' = Tail(al_order)
    /\ al_last' = <<[part |-> Head(al_order), moves |-> <<>>, best_move |-> Pt(0, 0),
                     tx |-> al_tx[Head(al_order)]]>>
    /\ UNCHANGED <<al_parts, al_npins, al_nets, al_tx, al_pc>>
    /\ UNCHANGED othersAlign

\* The turn of a part with align moves: "part.tx *= tx".
AlignTurn ==
    /\ al_pc = "loop"
    /\ al_order # <<>>
    /\ LET p == Head(al_order)
           moves == AlignMoves(p, al_nets, al_tx)
       IN  /\ moves # <<>>
           /\ LET best_move == MostCommon(moves)
                  mv == SingleAxis(best_move)
              IN  /\ al_tx' = [al_tx EXCEPT ![p] = TxMul(al_tx[p], TxMove(mv.x, mv.y))]
                  /\ al_last' = <<[part |-> p, moves |-> moves, best_move |-> best_move,
                                   tx |-> al_tx[p]]>>
    /\ al_order' = Tail(al_order)
    /\ UNCHANGED <<al_parts, al_npins, al_nets, al_pc>>
    /\ UNCHANGED othersAlign

\* The loop over mobile_parts has ended.
AlignReturn ==
    /\ al_pc = "loop"
    /\ al_order = <<>>
    /\ al_pc' = "done"
    /\ UNCHANGED <<al_parts, al_npins, al_nets, al_tx, al_order, al_last>>
    /\ UNCHANGED othersAlign

NextAlign ==
    \/ AlignSort
    \/ AlignSkipPart
    \/ AlignTurn
    \/ AlignReturn

SpecAlign == InitAlign /\ [][NextAlign]_vars

\* How often the move m occurs in the align moves of the last turn.
MoveCount(m) ==
    Cardinality({i \in DOMAIN al_last[1].moves : al_last[1].moves[i] = m})

\* The last turn took a most frequent move of its part, and the parts still
\* to be visited have no more pins than the part of the last turn.
AlignTookMostFrequent ==
    \A k \in DOMAIN al_last :
        /\ \A q \in Range(al_order) : al_npins[q] <= al_npins[al_last[k].part]
        /\ al_last[k].moves = <<>> => al_tx[al_last[k].part] = al_last[k].tx
        /\ al_last[k].moves # <<>> =>
              /\ \E i \in DOMAIN al_last[k].moves : al_last[k].moves[i] = al_last[k].best_move
              /\ \A i \in DOMAIN al_last[k].moves :
                    MoveCount(al_last[k].moves[i]) <= MoveCount(al_last[k].best_move)

(***************************************************************************)
(* C25 as the spec states it: the part of a turn is translated by its most *)
(* frequent anchor-to-pull offset with the component of smaller magnitude  *)
(* set to zero.                                                            *)
(***************************************************************************)
AlignZeroesSmallerAxis ==
    /\ AlignTookMostFrequent
    /\ \A k \in DOMAIN al_last :
          al_last[k].moves # <<>> =>
             LET b == al_last[k].best_move
                 mv == IF Abs(b.x) < Abs(b.y) THEN Pt(0, b.y) ELSE Pt(b.x, 0)
             IN  Abs(b.x) # Abs(b.y) =>
                    al_tx[al_last[k].part] = TxMul(al_last[k].tx, TxMove(mv.x, mv.y))

(***************************************************************************)
(* C25, corrected: parts are visited in order of decreasing pin count; the *)
(* part of a turn is translated by its most frequent anchor-to-pull offset *)
(* with the component of LARGER magnitude set to zero (the y component     *)
(* when the two magnitudes are equal), so that it moves along the axis of  *)
(* the smaller offset; a part without anchor-to-pull pair is not moved.    *)
(***************************************************************************)
AlignZeroesLargerAxis ==
    /\ AlignTookMostFrequent
    /\ \A k \in DOMAIN al_last :
          al_last[k].moves # <<>> =>
             LET b == al_last[k].best_move
                 mv == IF Abs(b.x) > Abs(b.y) THEN Pt(0, b.y) ELSE Pt(b.x, 0)
             IN  al_tx[al_last[k].part] = TxMul(al_last[k].tx, TxMove(mv.x, mv.y))

\* A part has been aligned along the axis of its smaller offset, which was
\* not zero.
AlignZeroesLargerAxisWitness ==
    \E k \in DOMAIN al_last :
        /\ al_last[k].moves # <<>>
        /\ Abs(al_last[k].best_move.x) # Abs(al_last[k].best_move.y)
        /\ al_last[k].best_move.x # 0
        /\ al_last[k].best_move.y # 0
        /\ al_tx[al_last[k].part] # al_last[k].tx

(***************************************************************************)
(* snap_to_grid on one element: a Part with its list of pins, or a         *)
(* PartBlock with its snap_pt.                                             *)
(***************************************************************************)
\* The points a pin or a snap point may have, in the element's coordinates.
SnapPts == {Pt(0, 0), Pt(5, -7)}

\* The transforms an element may have when snap_to_grid is called.
SnapTxs ==
    LET moves == {TxMove(x, y) : x \in {-13, -6, 0, 6, 7}, y \in {-18, 0, 5}}
    IN  moves \cup {rot_cw_90(t) : t \in moves}

\* The elements: parts with no, one or two pins, and blocks.
SnapElems ==
    {[kind |-> "part", pins |-> pins] : pins \in SeqsUpTo(SnapPts, 2)}
    \cup {[kind |-> "block", snap_pt |-> pt] : pt \in SnapPts}

InitSnap ==
    /\ IdleButSnap
    /\ sn_elem \in {<<e>> : e \in SnapElems}
    /\ sn_tx \in {<<t>> : t \in SnapTxs}
    /\ sn_tx0 = sn_tx
    /\ sn_pc = "call"

\* A part with pins: get_snap_pt returns part.pins[0].pt.
SnapPart ==
    /\ sn_pc = "call"
    /\ sn_elem[1].kind = "part"
    /\ sn_elem[1].pins # <<>>
    /\ sn_tx' = <<SnapBlock(sn_elem[1].pins[1], sn_tx[1])>>
    /\ sn_pc' = "returned"
    /\ UNCHANGED <<sn_elem, sn_tx0>>
    /\ UNCHANGED othersSnap

\* A part with an empty list of pins: "part_or_blk.pins[0]" raises
\* IndexError, and get_snap_pt only catches AttributeError.
SnapPartNoPins ==
    /\ sn_pc = "call"
    /\ sn_elem[1].kind = "part"
    /\ sn_elem[1].pins = <<>>
    /\ sn_pc' = "IndexError"
    /\ UNCHANGED <<sn_elem, sn_tx, sn_tx0>>
    /\ UNCHANGED othersSnap

\* A block has no pins attribute: get_snap_pt returns part_or_blk.snap_pt.
SnapPartBlock ==
    /\ sn_pc = "call"
    /\ sn_elem[1].kind = "block"
    /\ sn_tx' = <<SnapBlock(sn_elem[1].snap_pt, sn_tx[1])>>
    /\ sn_pc' = "returned"
    /\ UNCHANGED <<sn_elem, sn_tx0>>
    /\ UNCHANGED othersSnap

NextSnap ==
    \/ SnapPart
    \/ SnapPartNoPins
    \/ SnapPartBlock

SpecSnap == InitSnap /\ [][NextSnap]_vars

(***************************************************************************)
(* C26: snap_to_grid returns for every element, also for a part with an    *)
(* empty list of pins, and when it has returned the element has been       *)
(* moved by a pure translation of less than a grid step that puts its      *)
(* snap point on the grid.                                                 *)
(***************************************************************************)
SnapAlwaysSucceeds ==
    /\ sn_pc \notin {"IndexError"}
    /\ sn_pc = "returned" =>
          LET e == sn_elem[1]
              pt == IF e.kind = "block" THEN e.snap_pt
                    ELSE IF e.pins # <<>> THEN e.pins[1] ELSE Pt(0, 0)
              before == PtTx(pt, sn_tx0[1])
              after == PtTx(pt, sn_tx[1])
          IN  /\ OnGrid(after)
              /\ 2 * Abs(after.x - before.x) <= GRID
              /\ 2 * Abs(after.y - before.y) <= GRID
              /\ [sn_tx[1] EXCEPT !.dx = 0, !.dy = 0] = [sn_tx0[1] EXCEPT !.dx = 0, !.dy = 0]

(***************************************************************************)
(* add_anchor_pull_pins on a group of connected parts.                     *)
(***************************************************************************)

\* The pins of the design: two on every part (see PinPart).
AnchorPins == 1..(2 * NumParts)

\* The nets given to add_anchor_pull_pins: one or two disjoint nets; pins of
\* parts outside the group may be on them.
AnchorNets ==
    LET first == {S \in SUBSET AnchorPins : Cardinality(S) \in {2, 3}}
        second == {T \in SUBSET AnchorPins : Cardinality(T) = 2}
    IN  {<<S>> : S \in first}
            \cup {L \in {<<S, T>> : S \in first, T \in second} : L[1] \cap L[2] = {}}

\* "pins = {pin for pin in net.pins if pin.part in parts}"
net_pins(net, parts) == {k \in net : PinPart(k) \in parts}

\* "net.parts = {pin.part for pin in pins}"
net_parts(net, parts) == {PinPart(k) : k \in net_pins(net, parts)}

IsNetTerminalNever(P, term) == FALSE

\* "isinstance(pin.part, NetTerminal)"
IsNetTerminal(P, term) == P \in term

\* "for pin in pins: ..." over the pins in the order the set yields them,
\* from the k-th on, for net number n.  add_place_pt raises RuntimeError for
\* a pin of unknown orientation, after the pin was appended as an anchor.
RECURSIVE AssignPins(_, _, _, _)
AssignPins(lists, order, k, n) ==
    IF k > Len(order) THEN lists
    ELSE LET pin == order[k]
             P == PinPart(pin)
             pulled == {PinPart(order[j]) : j \in DOMAIN order} \ {P}
             anchored == [lists EXCEPT !.anchor[P][n] = Append(@, pin)]
         IN  IF pin \in ap_bad THEN [anchored EXCEPT !.err = TRUE]
             ELSE AssignPins(
                      [anchored EXCEPT !.pull =
                          [q \in DOMAIN lists.pull |->
                              IF q \in pulled /\ ~IsNetTerminal(P, ap_term)
                              THEN [lists.pull[q] EXCEPT ![n] = Append(@, pin)]
                              ELSE lists.pull[q]]],
                      order, k + 1, n)

InitAnchor ==
    /\ IdleButAnchor
    /\ ap_parts \in SUBSET (1..NumParts) \ {{}}
    /\ ap_term \in SUBSET ap_parts
    /\ ap_bad \in SUBSET {1}
    /\ ap_nets \in AnchorNets
    /\ ap_anchor = <<>>
    /\ ap_pull = <<>>
    /\ ap_i = 0
    /\ ap_pc = "dicts"

\* "part.anchor_pins = defaultdict(list); part.pull_pins = defaultdict(list)"
AnchorDicts ==
    /\ ap_pc = "dicts"
    /\ ap_anchor' = [p \in ap_parts |-> [n \in 1..Len(ap_nets) |-> <<>>]]
    /\ ap_pull' = [p \in ap_parts |-> [n \in 1..Len(ap_nets) |-> <<>>]]
    /\ ap_pc' = "nets"
    /\ UNCHANGED <<ap_parts, ap_term, ap_bad, ap_nets, ap_i>>
    /\ UNCHANGED othersAnchor

\* One turn of "for net in nets": the pins of the net on the parts of the
\* group are assigned to the anchor and pull lists.
AnchorNet ==
    /\ ap_pc = "nets"
    /\ ap_i < Len(ap_nets)
    /\ \E order \in Perms(net_pins(ap_nets[ap_i + 1], ap_parts)) :
          LET lists == AssignPins([anchor |-> ap_anchor, pull |-> ap_pull, err |-> FALSE],
                                  order, 1, ap_i + 1)
          IN  /\ ap_anchor' = lists.anchor
              /\ ap_pull' = lists.pull
              /\ ap_pc' = IF lists.err THEN "RuntimeError" ELSE "nets"
    /\ ap_i' = ap_i + 1
    /\ UNCHANGED <<ap_parts, ap_term, ap_bad, ap_nets>>
    /\ UNCHANGED othersAnchor

\* The nets are exhausted; the centroids are computed from the anchor lists,
\* which they leave alone, and the function returns.
AnchorReturn ==
    /\ ap_pc = "nets"
    /\ ap_i = Len(ap_nets)
    /\ ap_pc' = "done"
    /\ UNCHANGED <<ap_parts, ap_term, ap_bad, ap_nets, ap_anchor, ap_pull, ap_i>>
    /\ UNCHANGED othersAnchor

NextAnchor ==
    \/ AnchorDicts
    \/ AnchorNet
    \/ AnchorReturn

SpecAnchor == InitAnchor /\ [][NextAnchor]_vars

(***************************************************************************)
(* C27: when add_anchor_pull_pins has returned for a connected group,      *)
(* every pin of a net on a part P of the group is in P's anchor list for   *)
(* the net; it is in the pull list for the net of every other part of the  *)
(* group on the net exactly when P is not a NetTerminal; and no part's     *)
(* pull list holds a pin of that part.                                     *)
(***************************************************************************)
AnchorPullLists ==
    ap_pc = "done" =>
        \A n \in 1..Len(ap_nets) :
            /\ \A k \in net_pins(ap_nets[n], ap_parts) :
                  /\ k \in Range(ap_anchor[PinPart(k)][n])
                  /\ \A q \in net_parts(ap_nets[n], ap_parts) \ {PinPart(k)} :
                        (k \in Range(ap_pull[q][n])) <=> (PinPart(k) \notin ap_term)
            /\ \A p \in ap_parts : \A j \in Range(ap_pull[p][n]) : PinPart(j) # p

\* A net with two pins of one part and a pin of a NetTerminal has been
\* assigned: the NetTerminal is pulled and the other part is not.
AnchorPullListsWitness ==
    /\ ap_pc = "done"
    /\ \E n \in 1..Len(ap_nets) :
          LET pins == net_pins(ap_nets[n], ap_parts)
          IN  /\ \E k \in pins : PinPart(k) \in ap_term /\ ap_pull[PinPart(k)][n] # <<>>
              /\ \E k \in pins : PinPart(k) \notin ap_term /\ ap_pull[PinPart(k)][n] = <<>>
              /\ Cardinality(net_parts(ap_nets[n], ap_parts)) < Cardinality(pins)

(***************************************************************************)
(* Node.place_blocks: the groups of parts and the child nodes are placed   *)
(* as blocks.                                                              *)
(***************************************************************************)

\* The largest number of parts of the node and of its child nodes.
NumBlkParts == 2
MaxBlkChildren == 2

\* Attraction weights are kept in units of 1/AttrScale: 0.1 is 1.
AttrScale == 10

\* A child node: its flattened flag, the number of its parts, and its own
\* child node if it has one ("none", or the kind of a child with one part).
BlkChildNodes ==
    [flattened : BOOLEAN, parts : 0..1, sub : {"none", "flattened", "unflattened"}]

\* The transforms evolve_placement can leave on a block.
BlkTxs == {TxMove(GRID, 0), rot_cw_90(TxMove(0, GRID))}

NodeSnapPtIgnoringFlattened(child) ==
    IF child.parts > 0 \/ child.sub # "none" THEN "pt" ELSE "None"

\* Node.get_snap_pt: the snap point of the first part of a flattened node,
\* else that of its first flattened child that has one, else None.
NodeSnapPt(child) ==
    IF child.flattened
    THEN IF child.parts > 0 THEN "pt"
         ELSE IF child.sub = "flattened" THEN "pt" ELSE "None"
    ELSE "None"

\* The parts of the source of a block that is a group of parts.
SrcParts(src) ==
    IF src.kind = "group" THEN bk_groups[src.i]
    ELSE IF src.kind = "floating" THEN bk_floating ELSE {}

\* "if not part_list: continue"
HasParts(src) == SrcParts(src) # {}

\* "tag = 2 if (part_list is floating_parts) else 1"
PartListTag(src) == IF src.kind = "floating" THEN 2 ELSE 1

\* "tag = 3; if not snap_pt: ...; tag = 4"
ChildTag(child) == IF NodeSnapPt(child) = "None" THEN 4 ELSE 3

\* The blocks place_blocks creates: one for every list of
\* "connected_parts + [floating_parts]" that has parts, then one for every
\* child.  blk.tx starts as Tx().
PartBlocks ==
    LET lists == [i \in 1..(Len(bk_groups) + 1) |->
                     IF i <= Len(bk_groups) THEN [kind |-> "group", i |-> i]
                     ELSE [kind |-> "floating", i |-> 0]]
        used == SelectSeq(lists, HasParts)
    IN  [k \in 1..Len(used) |-> [src |-> used[k], tag |-> PartListTag(used[k]), tx |-> TxIdent]]
            \o [j \in 1..Len(bk_children) |->
                   [src |-> [kind |-> "child", i |-> j], tag |-> ChildTag(bk_children[j]),
                    tx |-> TxIdent]]

BlockTagsAll(blocks) == <<1, 2, 3, 4>>

\* "tags = sorted({blk.tag for blk in part_blocks})"
BlockTags(blocks) == SortedSeq({blocks[k].tag : k \in DOMAIN blocks})

\* blk_attr: nothing is stored for a block and itself, and the default of
\* the dict is 0.
BlkAttr(blocks) ==
    LET tags == BlockTags(blocks)
    IN  [i \in DOMAIN blocks |-> [j \in DOMAIN blocks |->
            IF i = j THEN 0
            ELSE IF blocks[i].tag = blocks[j].tag THEN AttrScale
            ELSE IF Abs(IndexOf(tags, blocks[i].tag) - IndexOf(tags, blocks[j].tag)) = 1 THEN 1
            ELSE 0]]

TxLeftMul(t, blk_tx) == TxMul(blk_tx, t)

\* "part.tx *= blk.tx"
TxApply(t, blk_tx) == TxMul(t, blk_tx)

InitBlocks ==
    /\ IdleButBlocks
    /\ \E n \in 0..NumBlkParts : \E g \in [1..n -> 0..2] :
          /\ bk_groups = [i \in 1..2 |-> {p \in 1..n : g[p] = i}]
          /\ bk_floating = {p \in 1..n : g[p] = 0}
          /\ bk_tx \in [1..n -> {TxIdent, TxMove(GRID, 0)}]
    /\ bk_children \in UNION {[1..n -> BlkChildNodes] : n \in 0..MaxBlkChildren}
    /\ \A p \in DOMAIN bk_tx : p > 1 => bk_tx[p] = TxIdent
    /\ bk_tx0 = bk_tx
    /\ bk_child_tx = [j \in DOMAIN bk_children |-> TxMove(GRID, GRID)]
    /\ bk_blocks = <<>>
    /\ bk_attr = <<>>
    /\ bk_pc = "blocks"

\* The two loops that create the blocks.
BlocksMake ==
    /\ bk_pc = "blocks"
    /\ bk_blocks' = PartBlocks
    /\ bk_pc' = "attr"
    /\ UNCHANGED <<bk_groups, bk_floating, bk_children, bk_tx, bk_tx0, bk_child_tx, bk_attr>>
    /\ UNCHANGED othersBlocks

\* The attraction between the blocks.
BlocksAttr ==
    /\ bk_pc = "attr"
    /\ bk_attr' = BlkAttr(bk_blocks)
    /\ bk_pc' = "place"
    /\ UNCHANGED <<bk_groups, bk_floating, bk_children, bk_tx, bk_tx0, bk_child_tx, bk_blocks>>
    /\ UNCHANGED othersBlocks

\* "if not part_blocks: return"
BlocksNothing ==
    /\ bk_pc = "place"
    /\ bk_blocks = <<>>
    /\ bk_pc' = "done"
    /\ UNCHANGED <<bk_groups, bk_floating, bk_children, bk_tx, bk_tx0, bk_child_tx, bk_blocks,
                   bk_attr>>
    /\ UNCHANGED othersBlocks

\* random_placement and evolve_placement of the blocks: every block ends
\* with some transform.
BlocksEvolve ==
    /\ bk_pc = "place"
    /\ bk_blocks # <<>>
    /\ \E txs \in [DOMAIN bk_blocks -> BlkTxs] :
          bk_blocks' = [k \in DOMAIN bk_blocks |-> [bk_blocks[k] EXCEPT !.tx = txs[k]]]
    /\ bk_pc' = "apply"
    /\ UNCHANGED <<bk_groups, bk_floating, bk_children, bk_tx, bk_tx0, bk_child_tx, bk_attr>>
    /\ UNCHANGED othersBlocks

\* "blk.src.tx = blk.tx" for a child node; a list or set of parts raises
\* AttributeError and "part.tx *= blk.tx" is done for each of its parts.
BlocksApply ==
    /\ bk_pc = "apply"
    /\ bk_child_tx' =
          [j \in DOMAIN bk_child_tx |->
              LET k == CHOOSE k \in DOMAIN bk_blocks : bk_blocks[k].src = [kind |-> "child", i |-> j]
              IN  bk_blocks[k].tx]
    /\ bk_tx' =
          [p \in DOMAIN bk_tx |->
              LET ks == {k \in DOMAIN bk_blocks : p \in SrcParts(bk_blocks[k].src)}
              IN  IF ks = {} THEN bk_tx[p]
                  ELSE TxApply(bk_tx[p], bk_blocks[CHOOSE k \in ks : TRUE].tx)]
    /\ bk_pc' = "done"
    /\ UNCHANGED <<bk_groups, bk_floating, bk_children, bk_tx0, bk_blocks, bk_attr>>
    /\ UNCHANGED othersBlocks

NextBlocks ==
    \/ BlocksMake
    \/ BlocksAttr
    \/ BlocksNothing
    \/ BlocksEvolve
    \/ BlocksApply

SpecBlocks == InitBlocks /\ [][NextBlocks]_vars

\* The blocks have been created.
BlocksMade == bk_pc \in {"attr", "place", "apply", "done"}

\* The child node of the block, for a block of a child.
BlkChild(blk) == bk_children[blk.src.i]

(***************************************************************************)
(* C28 as stated: a block of connected parts has tag 1, the block of the   *)
(* floating parts tag 2, the block of a flattened child node tag 3 and the *)
(* block of an unflattened child node tag 4.                               *)
(***************************************************************************)
TagsByKind ==
    BlocksMade =>
        \A k \in DOMAIN bk_blocks :
            LET blk == bk_blocks[k]
            IN  blk.tag = IF blk.src.kind = "group" THEN 1
                          ELSE IF blk.src.kind = "floating" THEN 2
                          ELSE IF BlkChild(blk).flattened THEN 3 ELSE 4

(***************************************************************************)
(* C28, corrected: a block of connected parts has tag 1 and the block of   *)
(* the floating parts tag 2; the block of a child node has tag 3 when the  *)
(* node is flattened and it, or a flattened child of it, has a part to     *)
(* take a snap point from, and tag 4 otherwise; so every unflattened       *)
(* child has tag 4, and so has a flattened child without snap point.       *)
(***************************************************************************)
TagsBySnapPoint ==
    BlocksMade =>
        \A k \in DOMAIN bk_blocks :
            LET blk == bk_blocks[k]
            IN  /\ blk.src.kind = "group" => blk.tag = 1
                /\ blk.src.kind = "floating" => blk.tag = 2
                /\ blk.src.kind = "child" =>
                      /\ blk.tag \in {3, 4}
                      /\ blk.tag = 3 <=>
                            /\ BlkChild(blk).flattened
                            /\ \/ BlkChild(blk).parts > 0
                               \/ BlkChild(blk).sub = "flattened"
                      /\ ~BlkChild(blk).flattened => blk.tag = 4

\* Blocks of connected parts, of floating parts and of child nodes exist,
\* among them a flattened child node with tag 4 and an unflattened child
\* node that has a part.
TagsBySnapPointWitness ==
    /\ BlocksMade
    /\ {bk_blocks[k].tag : k \in DOMAIN bk_blocks} = {1, 2, 4}
    /\ \E k \in DOMAIN bk_blocks :
          /\ bk_blocks[k].src.kind = "child"
          /\ BlkChild(bk_blocks[k]).flattened
          /\ bk_blocks[k].tag = 4
    /\ \E k \in DOMAIN bk_blocks :
          /\ bk_blocks[k].src.kind = "child"
          /\ ~BlkChild(bk_blocks[k]).flattened
          /\ BlkChild(bk_blocks[k]).parts > 0

\* blk_attr has been computed.
AttrMade == bk_pc \in {"place", "apply", "done"}

\* Tags a and b are neighbours in the sorted list of the distinct tags of
\* the blocks: they differ and no block has a tag strictly between them.
NeighbourTags(a, b) ==
    /\ a # b
    /\ ~\E k \in DOMAIN bk_blocks :
           /\ bk_blocks[k].tag > Min({a, b})
           /\ bk_blocks[k].tag < Max({a, b})

(***************************************************************************)
(* C29: between two distinct blocks the attraction is 1 when their tags    *)
(* are equal, 0.1 when their tags are neighbours in the sorted list of the *)
(* distinct tags present among the blocks, and 0 otherwise; the weights    *)
(* are symmetric and a block has no attraction to itself.                  *)
(***************************************************************************)
AttractionWeights ==
    AttrMade =>
        \A i, j \in DOMAIN bk_blocks :
            /\ bk_attr[i][j] = bk_attr[j][i]
            /\ i = j => bk_attr[i][j] = 0
            /\ i # j =>
                  bk_attr[i][j] =
                      IF bk_blocks[i].tag = bk_blocks[j].tag THEN AttrScale
                      ELSE IF NeighbourTags(bk_blocks[i].tag, bk_blocks[j].tag) THEN 1
                      ELSE 0

\* Two blocks of one tag, two blocks whose tags are neighbours only because
\* a tag is absent, and two blocks without attraction.
AttractionWeightsWitness ==
    /\ AttrMade
    /\ \E i, j \in DOMAIN bk_blocks : i # j /\ bk_attr[i][j] = AttrScale
    /\ \E i, j \in DOMAIN bk_blocks :
          bk_blocks[j].tag > bk_blocks[i].tag + 1 /\ bk_attr[i][j] = 1
    /\ \E i, j \in DOMAIN bk_blocks : i # j /\ bk_attr[i][j] = 0

(***************************************************************************)
(* C30: when place_blocks has finished, the transform of every child node  *)
(* is the final transform of its block, whatever it was before, and the    *)
(* transform of every part of a group is the transform the part had after  *)
(* the placement of its group, multiplied on the right by the final        *)
(* transform of the block of the group, the same for all its parts.        *)
(***************************************************************************)
BlockTxCopiedToSources ==
    bk_pc = "done" =>
        \A k \in DOMAIN bk_blocks :
            LET blk == bk_blocks[k]
            IN  /\ blk.src.kind = "child" => bk_child_tx[blk.src.i] = blk.tx
                /\ blk.src.kind # "child" =>
                      \A p \in SrcParts(blk.src) : bk_tx[p] = TxMul(bk_tx0[p], blk.tx)

\* A group of two parts, one of them moved by the placement of the group,
\* and a child node have got a block transform that turns them.
BlockTxCopiedToSourcesWitness ==
    /\ bk_pc = "done"
    /\ \E k \in DOMAIN bk_blocks :
          /\ Cardinality(SrcParts(bk_blocks[k].src)) = 2
          /\ bk_blocks[k].tx.a = 0
          /\ \E p \in SrcParts(bk_blocks[k].src) : bk_tx0[p] # TxIdent
    /\ \E k \in DOMAIN bk_blocks :
          /\ bk_blocks[k].src.kind = "child"
          /\ bk_blocks[k].tx.a = 0
          /\ bk_child_tx[bk_blocks[k].src.i] # TxMove(GRID, GRID)

====
